---- MODULE Spec2Model ----
(***************************************************************************)
(* table-maker: dimension planning (dimensions.py), table data and its     *)
(* dictionary form (table_data.py) and content synthesis (generators.py,   *)
(* maker.py), as state machines.                                           *)
(*                                                                         *)
(* Python lists are sequences (index i of the source is index i+1 here).   *)
(* random.randint(a, b) is a choice in a..b and raises when a > b;         *)
(* random.random() is a choice among RandomDraws, the multiples of         *)
(* 1/ProbScale in [0, 1); a probability p is the integer p*ProbScale.      *)
(***************************************************************************)
EXTENDS Integers, Sequences, FiniteSets, TLC

VARIABLES
    planCall,      \* arguments of the last generate_table_dimensions call
    planRet,       \* the tuple it returned (rows, columns, total_width, total_height)
    planPc,        \* "idle" | "returned" | "raised"
    dims,          \* the attributes of the TableDimensions under construction
    dimsPc,        \* position inside TableDimensions.__init__
    sizes,         \* local `sizes` of _generate_cell_sizes (varied mode)
    remaining,     \* local `remaining` of _generate_cell_sizes (varied mode)
    genCall,       \* arguments of the last content synthesis call
    empty_rows,    \* its local `empty_rows`
    empty_column,  \* its local `empty_column` (NoColumn for None)
    table,         \* the TableData built by the constructor or the generator
    tableFrom,     \* "none" | "constructor" | "generator"
    result,        \* the dictionary returned by maker.generate_cell_content
    data_dict,     \* the dictionary returned by TableData.to_dict
    instance,      \* the TableData returned by TableData.from_dict
    dataPc,        \* "idle" | "table" | "dict" | "restored" | "content" | "raised"
    wrapCall,      \* arguments of the last wrap_text / _wrap_text call
    wrapLines,     \* the list of lines it returned
    wrapPc,        \* "idle" | "returned"
    visualizer,    \* the attributes of the TableVisualizer
    installed,     \* the font files that can be opened on this machine
    renderCall,    \* arguments of the last render call
    image,         \* the image it returned
    renders,       \* number of render calls made on the visualizer
    renderPc,      \* "none" | "ready" | "rendered" | "raised"
    config,        \* keyword arguments of the generate_table(s) call
    batch,         \* generate_tables: count, loop index i and results
    batchPc,       \* "idle" | "none" | "loop" | "call" | "returned" | "raised"
    calls,         \* the loop indices generate_table was called for, in order
    frame,         \* the locals of the running generate_table call
    gtPc,          \* "idle", the stage about to run, "returned" or "raised"
    disk,          \* the directories and files under the output root
    argv,          \* the command line, without the program name
    args,          \* the namespace parse_args returned
    kwargs,        \* the keyword arguments main passed to generate_tables
    cliPc          \* "idle" | "parsed" | "called" | "exited"

vars == <<planCall, planRet, planPc, dims, dimsPc, sizes, remaining,
          genCall, empty_rows, empty_column, table, tableFrom, result,
          data_dict, instance, dataPc,
          wrapCall, wrapLines, wrapPc,
          visualizer, installed, renderCall, image, renders, renderPc,
          config, batch, batchPc, calls, frame, gtPc, disk,
          argv, args, kwargs, cliPc>>

planVars == <<planCall, planRet, planPc>>
dimsVars == <<dims, dimsPc, sizes, remaining>>
dataVars == <<genCall, empty_rows, empty_column, table, tableFrom, result,
              data_dict, instance, dataPc>>
wrapVars == <<wrapCall, wrapLines, wrapPc>>
renderVars == <<visualizer, renderCall, image, renders, renderPc>>
envVars == <<installed>>
makerVars == <<config, batch, batchPc, calls, frame, gtPc, disk>>
cliVars == <<argv, args, kwargs, cliPc>>
outputVars == <<wrapVars, renderVars, envVars, makerVars, cliVars>>

----------------------------------------------------------------------------
(* Program constants *)

MinColumnWidth == 40      \* min_size of a column
MinRowHeight   == 30      \* min_size of a row
MinTotalSize   == 500     \* floor of both pixel draws
ScreenWidth    == 2560
ScreenHeight   == 1600
Padding        == 5       \* pixels between a cell's border and its text
MinFontSize    == 12      \* ends of the range the font size is drawn from
MaxFontSize    == 16

(* Bounds of the model *)

MaxCells    == 3          \* rows + columns of the plans built near the floor
MaxSlack    == 1          \* pixels above / below n*min_size of those plans
EdgeSlack   == 1          \* pixels around a range end that the pixel draws sample
MaxTable    == 4          \* rows + columns of the tables built and synthesized
ProbScale   == 2          \* random.random() takes the values k/ProbScale, k < ProbScale
MaxTextLen  == 5          \* characters of the texts wrapped on their own
MaxWrapWidth == 4         \* widest max_width of those calls, in narrow characters
MaxRenders  == 2          \* render calls made on one visualizer
MaxCount    == 2          \* largest count of a generate_tables call

----------------------------------------------------------------------------
(* Helpers *)

Max(a, b) == IF a >= b THEN a ELSE b

RECURSIVE SumSeq(_)
SumSeq(s) == IF s = <<>> THEN 0 ELSE Head(s) + SumSeq(Tail(s))

\* random.randint(a, b): any integer of a..b; the call raises ValueError when
\* the range is empty.
RandInt(a, b) == a..b
RandIntRaises(a, b) == a > b

----------------------------------------------------------------------------
(* dimensions.py: generate_table_dimensions *)

\* Slip: an exclusive upper end, as for random.randrange.
RowsUpper_OffByOne(min_rows, max_rows) == Max(min_rows, max_rows) + 1
RowsUpper(min_rows, max_rows) == Max(min_rows, max_rows)
ColumnsUpper(min_columns, max_columns) == Max(min_columns, max_columns)
\* Slip: the row floor used for columns.
MinWidth_RowFloor(columns) == columns * MinRowHeight
MinWidth(columns) == columns * MinColumnWidth
MinHeight(rows) == rows * MinRowHeight
MaxWidth(margin) == ScreenWidth - 2 * margin
MaxHeight(margin) == ScreenHeight - 2 * margin
\* Slip: the 500-pixel floor left out of the width draw.
WidthLower_NoFloor(columns) == MinWidth(columns)
WidthLower(columns) == Max(MinTotalSize, MinWidth(columns))
HeightLower(rows) == Max(MinTotalSize, MinHeight(rows))

\* The count draws of a call with arguments a can give r rows and c columns.
CountsDrawn(a, r, c) ==
    /\ r \in RandInt(a.min_rows, RowsUpper(a.min_rows, a.max_rows))
    /\ c \in RandInt(a.min_columns, ColumnsUpper(a.min_columns, a.max_columns))

\* With r rows and c columns drawn, the pixel draws of a call with this
\* margin can give total_width w and total_height h.
TotalsDrawn(margin, r, c, w, h) ==
    /\ w \in RandInt(WidthLower(c), MaxWidth(margin))
    /\ h \in RandInt(HeightLower(r), MaxHeight(margin))

\* Arguments tried: the default margin, the largest margin that leaves a
\* height range (550), the first that does not (551), and one that leaves no
\* width range either; row and column bounds with min <= max and min > max,
\* below and above the counts whose floor n*min_size passes 500 pixels.
MarginCands == {0, 10, 550, 551, 1031}
MinRowCands == {1, 17}
MaxRowCands == {2, 18}
MinColumnCands == {1, 13}
MaxColumnCands == {2, 14}

PlanArgs ==
    [margin : MarginCands, min_rows : MinRowCands, max_rows : MaxRowCands,
     min_columns : MinColumnCands, max_columns : MaxColumnCands]

\* Values of the draws the model follows: every row and column count, and
\* the pixel totals within EdgeSlack of an end of some draw's range.
RowCands == 0..19
ColumnCands == 0..15
NearEnds(ends) == UNION {(e - EdgeSlack)..(e + EdgeSlack) : e \in ends}
WidthCands ==
    NearEnds({MinTotalSize} \cup {c * MinColumnWidth : c \in 13..14}
             \cup {ScreenWidth - 2 * m : m \in MarginCands})
HeightCands ==
    NearEnds({MinTotalSize} \cup {r * MinRowHeight : r \in 17..18}
             \cup {ScreenHeight - 2 * m : m \in MarginCands})

NoPlan == [rows |-> 0, columns |-> 0, total_width |-> 0, total_height |-> 0]

\* The four draws in order; an empty range at the width or the height draw
\* raises ValueError out of the call.
generate_table_dimensions ==
    /\ planPc = "idle"
    /\ \E a \in PlanArgs :
         /\ planCall' = a
         /\ \E rows \in RowCands \cap
                  RandInt(a.min_rows, RowsUpper(a.min_rows, a.max_rows)),
               columns \in ColumnCands \cap
                  RandInt(a.min_columns,
                          ColumnsUpper(a.min_columns, a.max_columns)) :
              \/ /\ RandIntRaises(WidthLower(columns), MaxWidth(a.margin))
                 /\ planRet' = NoPlan
                 /\ planPc' = "raised"
              \/ \E total_width \in WidthCands \cap
                       RandInt(WidthLower(columns), MaxWidth(a.margin)) :
                   \/ /\ RandIntRaises(HeightLower(rows), MaxHeight(a.margin))
                      /\ planRet' = NoPlan
                      /\ planPc' = "raised"
                   \/ \E total_height \in HeightCands \cap
                            RandInt(HeightLower(rows), MaxHeight(a.margin)) :
                        /\ planRet' = [rows |-> rows, columns |-> columns,
                                       total_width |-> total_width,
                                       total_height |-> total_height]
                        /\ planPc' = "returned"
    /\ UNCHANGED dimsVars
    /\ UNCHANGED dataVars
    /\ UNCHANGED outputVars

----------------------------------------------------------------------------
(* dimensions.py: class TableDimensions *)

LineStyles == {"solid_black", "dotted_black", "solid_gray", "removed"}

\* Uniform branch of _generate_cell_sizes (num_cells >= 1).
UniformSizes(num_cells, total_size) ==
    LET base_size == total_size \div num_cells
        remainder == total_size % num_cells
    IN  [i \in 1..num_cells |-> base_size + (IF i - 1 < remainder THEN 1 ELSE 0)]

\* Varied branch of _generate_cell_sizes, before its loop.
InitialSizes(num_cells, min_size) == [i \in 1..num_cells |-> min_size]
InitialRemaining(num_cells, total_size, min_size) ==
    total_size - min_size * num_cells

\* _generate_line_styles: the style lists the call can return.
\* Slip: one style per row instead of one per gridline.
HorizontalStyleLists_PerRow(rows, is_uniform) ==
    IF is_uniform
    THEN {[i \in 1..rows |-> "solid_black"]}
    ELSE [1..rows -> LineStyles]
HorizontalStyleLists(rows, is_uniform) ==
    IF is_uniform
    THEN {[i \in 1..(rows + 1) |-> "solid_black"]}
    ELSE [1..(rows + 1) -> LineStyles]
VerticalStyleLists(columns, is_uniform) ==
    IF is_uniform
    THEN {[i \in 1..(columns + 1) |-> "solid_black"]}
    ELSE [1..(columns + 1) -> LineStyles]

\* Constructor arguments tried.  Plans near the floor: rows and columns
\* adding up to MaxCells at most, totals within MaxSlack of n*min_size, both
\* modes.
Slacks == (0 - MaxSlack)..MaxSlack
GridShapes ==
    {rc \in (1..MaxCells) \X (1..MaxCells) : rc[1] + rc[2] <= MaxCells}
NearFloorInputs ==
    {[rows |-> rc[1], columns |-> rc[2],
      total_width |-> rc[2] * MinColumnWidth + dw,
      total_height |-> rc[1] * MinRowHeight + dh,
      margin |-> 10, is_uniform |-> u] :
        rc \in GridShapes, dw \in Slacks, dh \in Slacks, u \in BOOLEAN}
\* Plans of the size generate_table_dimensions returns: one row of one or two
\* columns, 500 by 500 pixels, in both modes, and a 13-column, 17-row grid in
\* uniform mode (its varied gridline styles alone have 4^32 outcomes).
PlannerSizeInputs ==
    {[rows |-> 1, columns |-> c,
      total_width |-> MinTotalSize, total_height |-> MinTotalSize,
      margin |-> 10, is_uniform |-> u] :
        c \in 1..2, u \in BOOLEAN}
    \cup
    {[rows |-> 17, columns |-> 13,
      total_width |-> w, total_height |-> h,
      margin |-> 10, is_uniform |-> TRUE] :
        w \in {MinTotalSize, 13 * MinColumnWidth, 13 * MinColumnWidth + 1},
        h \in {MinTotalSize, 17 * MinRowHeight, 17 * MinRowHeight + 1}}
DimsInputs == NearFloorInputs \cup PlannerSizeInputs

NoDims ==
    [rows |-> 0, columns |-> 0, total_width |-> 0, total_height |-> 0,
     margin |-> 0, is_uniform |-> TRUE,
     column_widths |-> <<>>, row_heights |-> <<>>,
     horizontal_styles |-> <<>>, vertical_styles |-> <<>>]

\* __init__, up to the first _generate_cell_sizes call.
TableDimensionsInit ==
    /\ dimsPc = "idle"
    /\ \E inp \in DimsInputs :
         dims' = [NoDims EXCEPT !.rows = inp.rows, !.columns = inp.columns,
                                !.total_width = inp.total_width,
                                !.total_height = inp.total_height,
                                !.margin = inp.margin,
                                !.is_uniform = inp.is_uniform]
    /\ dimsPc' = "column_widths"
    /\ UNCHANGED <<sizes, remaining>>
    /\ UNCHANGED planVars
    /\ UNCHANGED dataVars
    /\ UNCHANGED outputVars

\* The cell count, total and floor of the call at each position.
NumCells == IF dimsPc \in {"column_widths", "column_loop"}
            THEN dims.columns ELSE dims.rows
TotalSize == IF dimsPc \in {"column_widths", "column_loop"}
             THEN dims.total_width ELSE dims.total_height
MinSize == IF dimsPc \in {"column_widths", "column_loop"}
           THEN MinColumnWidth ELSE MinRowHeight

\* _generate_cell_sizes, entry: the uniform branch returns at once, the
\* varied branch sets up its loop.
GenerateCellSizesEnter ==
    /\ dimsPc \in {"column_widths", "row_heights"}
    /\ IF dims.is_uniform
       THEN /\ dims' = IF dimsPc = "column_widths"
                       THEN [dims EXCEPT !.column_widths =
                                UniformSizes(NumCells, TotalSize)]
                       ELSE [dims EXCEPT !.row_heights =
                                UniformSizes(NumCells, TotalSize)]
            /\ dimsPc' = IF dimsPc = "column_widths"
                         THEN "row_heights" ELSE "line_styles"
            /\ UNCHANGED <<sizes, remaining>>
       ELSE /\ sizes' = InitialSizes(NumCells, MinSize)
            /\ remaining' = InitialRemaining(NumCells, TotalSize, MinSize)
            /\ dimsPc' = IF dimsPc = "column_widths"
                         THEN "column_loop" ELSE "row_loop"
            /\ UNCHANGED dims
    /\ UNCHANGED planVars
    /\ UNCHANGED dataVars
    /\ UNCHANGED outputVars

\* One iteration of `while remaining > 0`.
GenerateCellSizesStep ==
    /\ dimsPc \in {"column_loop", "row_loop"}
    /\ remaining > 0
    /\ \E k \in RandInt(0, NumCells - 1) :
         sizes' = [sizes EXCEPT ![k + 1] = @ + 1]
    /\ remaining' = remaining - 1
    /\ UNCHANGED <<dims, dimsPc>>
    /\ UNCHANGED planVars
    /\ UNCHANGED dataVars
    /\ UNCHANGED outputVars

\* Loop exit and `return sizes`.
GenerateCellSizesReturn ==
    /\ dimsPc \in {"column_loop", "row_loop"}
    /\ ~(remaining > 0)
    /\ dims' = IF dimsPc = "column_loop"
               THEN [dims EXCEPT !.column_widths = sizes]
               ELSE [dims EXCEPT !.row_heights = sizes]
    /\ dimsPc' = IF dimsPc = "column_loop" THEN "row_heights" ELSE "line_styles"
    /\ sizes' = <<>>
    /\ remaining' = 0
    /\ UNCHANGED planVars
    /\ UNCHANGED dataVars
    /\ UNCHANGED outputVars

\* _generate_line_styles and the end of __init__.
GenerateLineStyles ==
    /\ dimsPc = "line_styles"
    /\ \E hor_styles \in HorizontalStyleLists(dims.rows, dims.is_uniform),
          ver_styles \in VerticalStyleLists(dims.columns, dims.is_uniform) :
         dims' = [dims EXCEPT !.horizontal_styles = hor_styles,
                              !.vertical_styles = ver_styles]
    /\ dimsPc' = "done"
    /\ UNCHANGED <<sizes, remaining>>
    /\ UNCHANGED planVars
    /\ UNCHANGED dataVars
    /\ UNCHANGED outputVars

----------------------------------------------------------------------------
(* table_data.py: class TableData *)

None == "<None>"

\* Slip: `or` for `and`.
CornerHeader_Either(has_column_headers, has_row_headers) ==
    IF has_column_headers \/ has_row_headers THEN "ID" ELSE None
\* The corner label of __init__ and of generate_cell_content.
CornerHeader(has_column_headers, has_row_headers) ==
    IF has_column_headers /\ has_row_headers THEN "ID" ELSE None

\* Slip: one entry short.
Nones_OneShort(n) == [i \in 1..(n - 1) |-> None]
\* [None] * n
Nones(n) == [i \in 1..n |-> None]

\* TableData.__init__
TableData(rows, columns, has_column_headers, has_row_headers) ==
    [rows |-> rows,
     columns |-> columns,
     has_column_headers |-> has_column_headers,
     has_row_headers |-> has_row_headers,
     data |-> [i \in 1..rows |-> Nones(columns)],
     column_headers |-> IF has_column_headers THEN Nones(columns) ELSE <<>>,
     row_headers |-> IF has_row_headers THEN Nones(rows) ELSE <<>>,
     corner_header |-> CornerHeader(has_column_headers, has_row_headers)]

\* TableData.to_dict: the six keys; rows and columns are not among them.
ToDict(t) ==
    [data |-> t.data,
     has_column_headers |-> t.has_column_headers,
     has_row_headers |-> t.has_row_headers,
     column_headers |-> t.column_headers,
     row_headers |-> t.row_headers,
     corner_header |-> t.corner_header]

\* TableData.from_dict: rows and columns are read off the body.
FromDict(d) ==
    LET rows == Len(d.data)
        columns == IF rows > 0 THEN Len(d.data[1]) ELSE 0
        inst == TableData(rows, columns, d.has_column_headers, d.has_row_headers)
    IN  [inst EXCEPT !.data = d.data,
                     !.column_headers = d.column_headers,
                     !.row_headers = d.row_headers,
                     !.corner_header = d.corner_header]

NoTable == TableData(0, 0, FALSE, FALSE)
NoDict == ToDict(NoTable)

\* Shapes of the tables built directly: zero rows or columns included.
BuiltShapes ==
    {rc \in (0..MaxTable) \X (0..MaxTable) : rc[1] + rc[2] <= MaxTable}

\* A client constructs a TableData.
NewTableData ==
    /\ dataPc = "idle"
    /\ \E rc \in BuiltShapes, hc \in BOOLEAN, hr \in BOOLEAN :
         table' = TableData(rc[1], rc[2], hc, hr)
    /\ tableFrom' = "constructor"
    /\ dataPc' = "table"
    /\ UNCHANGED <<genCall, empty_rows, empty_column, result, data_dict, instance>>
    /\ UNCHANGED planVars
    /\ UNCHANGED dimsVars
    /\ UNCHANGED outputVars

to_dict ==
    /\ dataPc = "table"
    /\ data_dict' = ToDict(table)
    /\ dataPc' = "dict"
    /\ UNCHANGED <<genCall, empty_rows, empty_column, table, tableFrom, result,
                   instance>>
    /\ UNCHANGED planVars
    /\ UNCHANGED dimsVars
    /\ UNCHANGED outputVars

from_dict ==
    /\ dataPc = "dict"
    /\ instance' = FromDict(data_dict)
    /\ dataPc' = "restored"
    /\ UNCHANGED <<genCall, empty_rows, empty_column, table, tableFrom, result,
                   data_dict>>
    /\ UNCHANGED planVars
    /\ UNCHANGED dimsVars
    /\ UNCHANGED outputVars

----------------------------------------------------------------------------
(* generators.py: RandomDataGenerator.generate_table_data                  *)
(* maker.py: generate_cell_content                                         *)
(* The two bodies are the same code but for the size of the data body.     *)
(* The text of a filled cell or header is one token: which Faker value it  *)
(* is (large_number_probability chooses among them) is not followed.       *)

CellText == "text"
HeaderText == "Header"
\* str(i) of a row index
IndexStr(i) == <<"0", "1", "2", "3", "4", "5", "6", "7">>[i + 1]
NoColumn == 0 - 1

\* Slip: a draw over the closed interval [0, 1].
RandomDraws_Closed == 0..ProbScale
\* Values of random.random()
RandomDraws == 0..(ProbScale - 1)
\* Outcomes of `random.random() < p`
Flip(p) == {d < p : d \in RandomDraws}

One == ProbScale
Half == ProbScale \div 2
ProbCands == {0, Half, One}

\* Slip: the header row not taken off the body.
DataRows_Full(rows, has_column_headers) == rows
\* maker.py: data_rows and data_columns
DataRows(rows, has_column_headers) ==
    rows - (IF has_column_headers THEN 1 ELSE 0)
DataColumns(columns, has_row_headers) ==
    columns - (IF has_row_headers THEN 1 ELSE 0)

\* Slip: rows are marked empty in the uniform style too.
EmptyRowsChoices_AnyStyle(n_rows, is_normal, empty_row_probability) ==
    [1..n_rows -> Flip(empty_row_probability)]
\* `empty_rows` after the `if not is_normal` block
EmptyRowsChoices(n_rows, is_normal, empty_row_probability) ==
    IF is_normal
    THEN {[i \in 1..n_rows |-> FALSE]}
    ELSE [1..n_rows -> Flip(empty_row_probability)]

\* `empty_column` after the block; the randint raises on an empty range
EmptyColumnChoices(n_columns, is_normal, empty_column_probability) ==
    IF is_normal
    THEN {NoColumn}
    ELSE (IF FALSE \in Flip(empty_column_probability) THEN {NoColumn} ELSE {})
         \cup (IF TRUE \in Flip(empty_column_probability)
               THEN RandInt(0, n_columns - 1) ELSE {})
EmptyColumnRaises(n_columns, is_normal, empty_column_probability) ==
    /\ ~is_normal
    /\ TRUE \in Flip(empty_column_probability)
    /\ RandIntRaises(0, n_columns - 1)

\* maker.py: the result dictionary before the loops
ContentDict(data_rows, data_columns, has_column_headers, has_row_headers) ==
    [data |-> [i \in 1..data_rows |-> Nones(data_columns)],
     has_column_headers |-> has_column_headers,
     has_row_headers |-> has_row_headers,
     column_headers |-> IF has_column_headers THEN Nones(data_columns) ELSE <<>>,
     row_headers |-> IF has_row_headers THEN Nones(data_rows) ELSE <<>>,
     corner_header |-> CornerHeader(has_column_headers, has_row_headers)]

\* Slip: the empty column is not skipped.
ColumnHeaderChoices_NoSkip(column_headers, has_column_headers, n_columns, e_column) ==
    IF has_column_headers
    THEN {[j \in DOMAIN column_headers |-> HeaderText]}
    ELSE {column_headers}
\* The column header loop: every slot but the empty column's is assigned.
ColumnHeaderChoices(column_headers, has_column_headers, n_columns, e_column) ==
    IF has_column_headers
    THEN {[j \in DOMAIN column_headers |->
             IF j \in 1..n_columns /\ j - 1 # e_column
             THEN HeaderText ELSE column_headers[j]]}
    ELSE {column_headers}

\* The row header loop: every slot but those of empty rows is assigned a
\* text header or str(i).
RowHeaderChoices(row_headers, has_row_headers, n_rows, e_rows) ==
    IF has_row_headers
    THEN {h \in [DOMAIN row_headers ->
                   {None, HeaderText} \cup {IndexStr(i - 1) : i \in 1..n_rows}] :
            \A i \in DOMAIN row_headers :
                h[i] \in (IF i \in 1..n_rows /\ ~e_rows[i]
                          THEN {HeaderText, IndexStr(i - 1)}
                          ELSE {row_headers[i]})}
    ELSE {row_headers}

\* One body cell: skipped, left None, or assigned a text.
CellChoices(old, skipped, empty_cell_probability) ==
    IF skipped
    THEN {old}
    ELSE (IF TRUE \in Flip(empty_cell_probability) THEN {old} ELSE {})
         \cup (IF FALSE \in Flip(empty_cell_probability) THEN {CellText} ELSE {})

\* The body loop over range(n_rows) x range(n_columns)
DataChoices(data, n_rows, n_columns, e_rows, e_column, empty_cell_probability) ==
    {d \in [DOMAIN data ->
              UNION {[DOMAIN data[i] -> {None, CellText}] : i \in DOMAIN data}] :
        \A i \in DOMAIN data :
            /\ DOMAIN d[i] = DOMAIN data[i]
            /\ \A j \in DOMAIN data[i] :
                 d[i][j] \in
                    (IF i \in 1..n_rows /\ j \in 1..n_columns
                     THEN CellChoices(data[i][j],
                                      e_rows[i] \/ j - 1 = e_column,
                                      empty_cell_probability)
                     ELSE {data[i][j]})}

\* Calls tried: at least one row and one column.
TableShapes ==
    {rc \in (1..MaxTable) \X (1..MaxTable) : rc[1] + rc[2] <= MaxTable}
GenCalls ==
    {[rows |-> rc[1], columns |-> rc[2], is_normal |-> n,
      empty_row_probability |-> erp, empty_column_probability |-> ecp,
      empty_cell_probability |-> ecl,
      column_header_probability |-> chp, row_header_probability |-> rhp] :
        rc \in TableShapes, n \in BOOLEAN, erp \in ProbCands, ecp \in ProbCands,
        ecl \in ProbCands, chp \in ProbCands, rhp \in ProbCands}

NoCall ==
    [rows |-> 0, columns |-> 0, is_normal |-> TRUE,
     empty_row_probability |-> 0, empty_column_probability |-> 0,
     empty_cell_probability |-> 0,
     column_header_probability |-> 0, row_header_probability |-> 0]

\* RandomDataGenerator.generate_table_data: the body has rows x columns cells.
generate_table_data ==
    /\ dataPc = "idle"
    /\ \E c \in GenCalls :
        /\ genCall' = c
        /\ \E has_column_headers \in Flip(c.column_header_probability),
              has_row_headers \in Flip(c.row_header_probability),
              e_rows \in EmptyRowsChoices(c.rows, c.is_normal,
                                          c.empty_row_probability) :
            /\ empty_rows' = e_rows
            /\ \/ /\ EmptyColumnRaises(c.columns, c.is_normal,
                                       c.empty_column_probability)
                  /\ empty_column' = NoColumn
                  /\ table' = NoTable
                  /\ tableFrom' = "none"
                  /\ dataPc' = "raised"
               \/ \E e_column \in EmptyColumnChoices(c.columns, c.is_normal,
                                        c.empty_column_probability) :
                  LET t == TableData(c.rows, c.columns,
                                     has_column_headers, has_row_headers)
                  IN
                  \E ch \in ColumnHeaderChoices(t.column_headers,
                                has_column_headers, c.columns, e_column),
                     rh \in RowHeaderChoices(t.row_headers,
                                has_row_headers, c.rows, e_rows),
                     d \in DataChoices(t.data, c.rows, c.columns, e_rows,
                                       e_column, c.empty_cell_probability) :
                    /\ empty_column' = e_column
                    /\ table' = [t EXCEPT !.column_headers = ch,
                                          !.row_headers = rh,
                                          !.data = d]
                    /\ tableFrom' = "generator"
                    /\ dataPc' = "table"
    /\ UNCHANGED <<result, data_dict, instance>>
    /\ UNCHANGED planVars
    /\ UNCHANGED dimsVars
    /\ UNCHANGED outputVars

\* maker.generate_cell_content: headers take a row and a column of the
\* requested grid.
generate_cell_content ==
    /\ dataPc = "idle"
    /\ \E c \in GenCalls :
        /\ genCall' = c
        /\ \E has_column_headers \in Flip(c.column_header_probability),
              has_row_headers \in Flip(c.row_header_probability) :
           LET data_rows == DataRows(c.rows, has_column_headers)
               data_columns == DataColumns(c.columns, has_row_headers)
           IN
           \E e_rows \in EmptyRowsChoices(data_rows, c.is_normal,
                                          c.empty_row_probability) :
            /\ empty_rows' = e_rows
            /\ \/ /\ EmptyColumnRaises(data_columns, c.is_normal,
                                       c.empty_column_probability)
                  /\ empty_column' = NoColumn
                  /\ result' = NoDict
                  /\ dataPc' = "raised"
               \/ \E e_column \in EmptyColumnChoices(data_columns, c.is_normal,
                                        c.empty_column_probability) :
                  LET r == ContentDict(data_rows, data_columns,
                                       has_column_headers, has_row_headers)
                  IN
                  \E ch \in ColumnHeaderChoices(r.column_headers,
                                has_column_headers, data_columns, e_column),
                     rh \in RowHeaderChoices(r.row_headers,
                                has_row_headers, data_rows, e_rows),
                     d \in DataChoices(r.data, data_rows, data_columns, e_rows,
                                       e_column, c.empty_cell_probability) :
                    /\ empty_column' = e_column
                    /\ result' = [r EXCEPT !.column_headers = ch,
                                           !.row_headers = rh,
                                           !.data = d]
                    /\ dataPc' = "content"
    /\ UNCHANGED <<table, tableFrom, data_dict, instance>>
    /\ UNCHANGED planVars
    /\ UNCHANGED dimsVars
    /\ UNCHANGED outputVars

----------------------------------------------------------------------------
(* maker.py: wrap_text; visualizer.py: TableVisualizer._wrap_text          *)
(* A text is the sequence of its characters. A font is the record of the   *)
(* metrics the code reads from it: the advance of a narrow and of a wide   *)
(* character and ascent + descent (line_height).                           *)

WideChars == {"W", "H"}
Whitespace == {" "}

\* font.getlength(char)
CharLength(font, char) == IF char \in WideChars THEN font.wide ELSE font.narrow
\* font.getlength(s): the advances of the characters of s, summed
GetLength(font, s) == SumSeq([k \in 1..Len(s) |-> CharLength(font, s[k])])

\* str.split(): the maximal runs of non-whitespace characters
RECURSIVE SplitLoop(_, _, _)
SplitLoop(text, words, word) ==
    IF text = <<>>
    THEN IF word # <<>> THEN Append(words, word) ELSE words
    ELSE IF Head(text) \in Whitespace
         THEN SplitLoop(Tail(text),
                        IF word # <<>> THEN Append(words, word) ELSE words,
                        <<>>)
         ELSE SplitLoop(Tail(text), words, Append(word, Head(text)))
Split(text) == SplitLoop(text, <<>>, <<>>)

\* " ".join(words)
RECURSIVE Join(_)
Join(words) ==
    IF words = <<>> THEN <<>>
    ELSE IF Len(words) = 1 THEN Head(words)
    ELSE Head(words) \o <<" ">> \o Join(Tail(words))

\* Slip: a word that does not fit starts a new line even when the current
\* line holds nothing.
WordStartsLine_EvenFirst(current_width, word_width, max_width, current_line) ==
    current_width + word_width > max_width
\* The test of the "word" branch: does the word start a new line?
WordStartsLine(current_width, word_width, max_width, current_line) ==
    current_width + word_width > max_width /\ current_line # <<>>

\* The loop of the "word" branch over the remaining words.
RECURSIVE WrapWordLoop(_, _, _, _, _, _)
WrapWordLoop(words, font, max_width, lines, current_line, current_width) ==
    IF words = <<>>
    THEN IF current_line # <<>> THEN Append(lines, Join(current_line)) ELSE lines
    ELSE LET word == Head(words)
             word_width == GetLength(font, word)
             space_width == CharLength(font, " ")
         IN IF WordStartsLine(current_width, word_width, max_width,
                              current_line)
            THEN WrapWordLoop(Tail(words), font, max_width,
                              Append(lines, Join(current_line)),
                              <<word>>, word_width)
            ELSE WrapWordLoop(Tail(words), font, max_width, lines,
                              Append(current_line, word),
                              current_width + word_width + space_width)

\* Slip: the width of the line is tested before the character is added.
CharFits_BeforeAdding(current_width, char_width, max_width) ==
    current_width <= max_width
\* The test of the "char" branch: does the character still fit on the line?
CharFits(current_width, char_width, max_width) ==
    current_width + char_width <= max_width

\* The loop of the "char" branch over the remaining characters.
RECURSIVE WrapCharLoop(_, _, _, _, _, _)
WrapCharLoop(text, font, max_width, lines, current_line, current_width) ==
    IF text = <<>>
    THEN IF current_line # <<>> THEN Append(lines, current_line) ELSE lines
    ELSE LET char == Head(text)
             char_width == CharLength(font, char)
         IN IF CharFits(current_width, char_width, max_width)
            THEN WrapCharLoop(Tail(text), font, max_width, lines,
                              Append(current_line, char),
                              current_width + char_width)
            ELSE WrapCharLoop(Tail(text), font, max_width,
                              IF current_line # <<>>
                              THEN Append(lines, current_line) ELSE lines,
                              <<char>>, char_width)

\* wrap_text(text, font, max_width, wrap_mode)
WrapText(text, font, max_width, wrap_mode) ==
    IF wrap_mode = "none" THEN <<text>>
    ELSE IF wrap_mode = "char"
         THEN WrapCharLoop(text, font, max_width, <<>>, <<>>, 0)
         ELSE WrapWordLoop(Split(text), font, max_width, <<>>, <<>>, 0)

\* The calls tried: every text of at most MaxTextLen characters over a narrow
\* character, a wide one and the space, in a font whose wide character is
\* three times the narrow one, for every width from below zero to MaxWrapWidth.
WrapAlphabet == {"i", "W", " "}
WrapTexts == UNION {[1..n -> WrapAlphabet] : n \in 0..MaxTextLen}
WrapWidths == (0 - 1)..MaxWrapWidth
WrapModes == {"word", "none", "char", "justify"}
WrapFonts == {[size |-> 3, narrow |-> 1, wide |-> 3, line_height |-> 4]}
NoWrapCall == [text |-> <<>>, font |-> [size |-> 0, narrow |-> 0, wide |-> 0,
                                        line_height |-> 0],
               max_width |-> 0, wrap_mode |-> "word", self_wrap_mode |-> None]

\* maker.wrap_text
wrap_text ==
    /\ wrapPc = "idle"
    /\ \E text \in WrapTexts, font \in WrapFonts, max_width \in WrapWidths,
          wrap_mode \in WrapModes :
        /\ wrapCall' = [text |-> text, font |-> font, max_width |-> max_width,
                        wrap_mode |-> wrap_mode, self_wrap_mode |-> None]
        /\ wrapLines' = WrapText(text, font, max_width, wrap_mode)
    /\ wrapPc' = "returned"
    /\ UNCHANGED <<cliVars, planVars, dimsVars, dataVars, renderVars, envVars, makerVars>>

\* TableVisualizer._wrap_text: a wrap_mode of None stands for the mode the
\* visualizer was constructed with.
EffectiveWrapMode(wrap_mode, self_wrap_mode) ==
    IF wrap_mode = None THEN self_wrap_mode ELSE wrap_mode

_wrap_text ==
    /\ wrapPc = "idle"
    /\ \E text \in WrapTexts, font \in WrapFonts, max_width \in WrapWidths,
          self_wrap_mode \in WrapModes, wrap_mode \in WrapModes \cup {None} :
        /\ wrapCall' = [text |-> text, font |-> font, max_width |-> max_width,
                        wrap_mode |-> wrap_mode,
                        self_wrap_mode |-> self_wrap_mode]
        /\ wrapLines' = WrapText(text, font, max_width,
                                 EffectiveWrapMode(wrap_mode, self_wrap_mode))
    /\ wrapPc' = "returned"
    /\ UNCHANGED <<cliVars, planVars, dimsVars, dataVars, renderVars, envVars, makerVars>>

----------------------------------------------------------------------------
(* visualizer.py: class TableVisualizer; maker.py: the drawing code of     *)
(* generate_table, which is the same code inlined.                         *)
(* An image is its size, the gridlines drawn on it and, for every cell     *)
(* that got text, the lines of text drawn into it.                         *)

\* The characters of the strings that are drawn.
Chars(s) ==
    CASE s = "text"   -> <<"t", "e", "x", "t">>
      [] s = "Header" -> <<"H", "e", "a", "d", "e", "r">>
      [] s = "ID"     -> <<"I", "D">>
      [] s = "i i"    -> <<"i", " ", "i">>
      [] s = "i i i"  -> <<"i", " ", "i", " ", "i">>
      [] OTHER        -> <<s>>

\* ImageFont.truetype(file, size): the faces the code asks for, and the
\* metrics of the face it gets. The bold faces are one pixel wider.
RegularFile == "Helvetica.ttf"
BoldFile == "Helvetica-Bold.ttf"
SystemFile == "/System/Library/Fonts/Helvetica.ttc"
FontFiles == {RegularFile, BoldFile, SystemFile}
TrueType(file, index, size) ==
    LET bold == IF file = BoldFile \/ index = 1 THEN 1 ELSE 0
    IN  [file |-> file, index |-> index, size |-> size,
         narrow |-> size \div 2 + bold,
         wide |-> size + bold,
         line_height |-> size + size \div 4]
NoFont == [file |-> None, index |-> 0, size |-> 0, narrow |-> 0, wide |-> 0,
           line_height |-> 0]

\* The regular font: Helvetica.ttf, else the system collection; IOError when
\* neither can be opened.
RegularFontRaises(files) ==
    RegularFile \notin files /\ SystemFile \notin files
RegularFont(files, size) ==
    IF RegularFile \in files
    THEN TrueType(RegularFile, 0, size)
    ELSE TrueType(SystemFile, 0, size)
\* The header font: Helvetica-Bold.ttf, else face 1 of the system collection,
\* else the regular font.
HeaderFont(files, size, font) ==
    IF BoldFile \in files THEN TrueType(BoldFile, 0, size)
    ELSE IF SystemFile \in files THEN TrueType(SystemFile, 1, size)
    ELSE font

\* Slip: the image is sized by its cells.
ImageWidth_FromCells(dimensions) ==
    SumSeq(dimensions.column_widths) + 2 * dimensions.margin
\* Image.new("RGB", (total_width + 2 * margin, total_height + 2 * margin))
ImageWidth(dimensions) == dimensions.total_width + 2 * dimensions.margin
ImageHeight(dimensions) == dimensions.total_height + 2 * dimensions.margin

\* list(accumulate(sizes)) with a leading 0, shifted by the margin
Positions(lengths, margin) ==
    [i \in 1..(Len(lengths) + 1) |-> margin + SumSeq(SubSeq(lengths, 1, i - 1))]

\* draw_grid / _draw_grid: one line per position, in its style, over the
\* summed extent of the other axis; a "removed" line is not drawn.
GridLines(lengths, other_lengths, styles, margin) ==
    LET positions == Positions(lengths, margin)
    IN  {[at |-> positions[i], from |-> margin,
          to |-> margin + SumSeq(other_lengths), style |-> styles[i]] :
            i \in {k \in DOMAIN positions : styles[k] # "removed"}}
\* wrapped_text[:max_lines], a Python slice: a negative max_lines counts from
\* the end of the list.
Slice(s, n) ==
    IF n >= 0
    THEN SubSeq(s, 1, IF n <= Len(s) THEN n ELSE Len(s))
    ELSE SubSeq(s, 1, Max(0, Len(s) + n))

\* The lines drawn into one cell.
MaxLines(cell_height, line_height) == (cell_height - 2 * Padding) \div line_height
DrawnLines(text, font, cell_width, cell_height, wrap_mode) ==
    LET wrapped_text == WrapText(Chars(text), font, cell_width - 2 * Padding,
                                 wrap_mode)
    IN  Slice(wrapped_text, MaxLines(cell_height, font.line_height))

\* Slip: the body is always moved down one row.
RowOffset_Always(has_column_headers) == 1
\* row_offset and col_offset
RowOffset(has_column_headers) == IF has_column_headers THEN 1 ELSE 0
ColOffset(has_row_headers) == IF has_row_headers THEN 1 ELSE 0

\* The cells the four drawing blocks address: the loop indices i and j, the
\* 0-based grid row and column they are turned into, and the text to draw.
\* t is a TableData or the content dictionary.
AddressedCells(t) ==
    (IF t.has_column_headers /\ t.has_row_headers /\ t.corner_header # None
     THEN {[kind |-> "corner", i |-> 0, j |-> 0, row |-> 0, column |-> 0,
            text |-> t.corner_header]}
     ELSE {})
    \cup
    (IF t.has_column_headers
     THEN {[kind |-> "column_header", i |-> 0, j |-> j - 1, row |-> 0,
            column |-> (j - 1) + ColOffset(t.has_row_headers),
            text |-> t.column_headers[j]] :
              j \in {k \in DOMAIN t.column_headers : t.column_headers[k] # None}}
     ELSE {})
    \cup
    (IF t.has_row_headers
     THEN {[kind |-> "row_header", i |-> i - 1, j |-> 0,
            row |-> (i - 1) + RowOffset(t.has_column_headers), column |-> 0,
            text |-> t.row_headers[i]] :
              i \in {k \in DOMAIN t.row_headers : t.row_headers[k] # None}}
     ELSE {})
    \cup
    UNION {{[kind |-> "data", i |-> i - 1, j |-> j - 1,
             row |-> (i - 1) + RowOffset(t.has_column_headers),
             column |-> (j - 1) + ColOffset(t.has_row_headers),
             text |-> t.data[i][j]] :
               j \in {k \in DOMAIN t.data[i] : t.data[i][k] # None}} :
           i \in DOMAIN t.data}

\* column_widths[column] and row_heights[row] exist
InGrid(cell, column_widths, row_heights) ==
    /\ cell.row < Len(row_heights)
    /\ cell.column < Len(column_widths)
\* An index past the end of either list raises IndexError.
DrawRaises(t, column_widths, row_heights) ==
    \E cell \in AddressedCells(t) : ~InGrid(cell, column_widths, row_heights)

\* The text drawn: per addressed cell, the lines that fit its height.
DrawnCells(t, column_widths, row_heights, margin, font, header_font, wrap_mode) ==
    {[kind |-> cell.kind, i |-> cell.i, j |-> cell.j,
      row |-> cell.row, column |-> cell.column, text |-> cell.text,
      left |-> Positions(column_widths, margin)[cell.column + 1],
      top |-> Positions(row_heights, margin)[cell.row + 1],
      lines |-> DrawnLines(cell.text,
                           IF cell.kind = "data" THEN font ELSE header_font,
                           column_widths[cell.column + 1],
                           row_heights[cell.row + 1], wrap_mode)] :
        cell \in AddressedCells(t)}

NoImage == [width |-> 0, height |-> 0, vertical |-> {}, horizontal |-> {},
            cells |-> {}]

\* The sizes a _generate_cell_sizes / generate_cell_sizes call can return.
\* Of the results of the varied loop, those are followed in which all the
\* remaining pixels fall on the first cell, or spread evenly over the cells.
CellSizesRaises(num_cells, total_size, min_size, uniform) ==
    \/ uniform /\ num_cells = 0
    \/ /\ ~uniform
       /\ InitialRemaining(num_cells, total_size, min_size) > 0
       /\ RandIntRaises(0, num_cells - 1)
CellSizesChoices(num_cells, total_size, min_size, uniform) ==
    IF uniform THEN {UniformSizes(num_cells, total_size)}
    ELSE LET rest == InitialRemaining(num_cells, total_size, min_size)
             start == InitialSizes(num_cells, min_size)
         IN  IF rest <= 0 THEN {start}
             ELSE {[i \in 1..num_cells |->
                      start[i] + (IF i = 1 THEN rest ELSE 0)]}
                  \cup {[i \in 1..num_cells |->
                           start[i] + UniformSizes(num_cells, rest)[i]]}

\* The style lists a _generate_line_styles / generate_line_styles call can
\* return. Of the varied results, those are followed that give every line of
\* the table the same style.
LineStylesChoices(rows, columns, is_uniform) ==
    {[horizontal |-> hor_styles, vertical |-> ver_styles] :
        hor_styles \in HorizontalStyleLists(rows, is_uniform),
        ver_styles \in VerticalStyleLists(columns, is_uniform)}
SameStyle(line_styles) ==
    \E style \in LineStyles :
        /\ \A i \in DOMAIN line_styles.horizontal :
             line_styles.horizontal[i] = style
        /\ \A i \in DOMAIN line_styles.vertical :
             line_styles.vertical[i] = style

\* The objects TableDimensions(...) can construct from its arguments.
TableDimensionsChoices(inp) ==
    {[rows |-> inp.rows, columns |-> inp.columns,
      total_width |-> inp.total_width, total_height |-> inp.total_height,
      margin |-> inp.margin, is_uniform |-> inp.is_uniform,
      column_widths |-> column_widths, row_heights |-> row_heights,
      horizontal_styles |-> line_styles.horizontal,
      vertical_styles |-> line_styles.vertical] :
        column_widths \in CellSizesChoices(inp.columns, inp.total_width,
                                           MinColumnWidth, inp.is_uniform),
        row_heights \in CellSizesChoices(inp.rows, inp.total_height,
                                         MinRowHeight, inp.is_uniform),
        line_styles \in {l \in LineStylesChoices(inp.rows, inp.columns,
                                                 inp.is_uniform) : SameStyle(l)}}

\* The TableDimensions objects handed to render: grids of one or two rows
\* and columns; uniform cells too low for any text up to three lines high,
\* too narrow for two words or wide enough for three; varied cells of a plan
\* one pixel below n*min_size.
RenderSizes == {<<20, 8>>, <<20, 10>>, <<20, 41>>, <<20, 60>>, <<80, 41>>}
RenderMargins == {0, 10}
RenderDimensionsInputs ==
    {[rows |-> r, columns |-> c, total_width |-> wh[1], total_height |-> wh[2],
      margin |-> m, is_uniform |-> TRUE] :
        r \in 1..2, c \in 1..2, wh \in RenderSizes, m \in RenderMargins}
    \cup
    {[rows |-> r, columns |-> c, total_width |-> c * MinColumnWidth - 1,
      total_height |-> r * MinRowHeight - 1, margin |-> 10,
      is_uniform |-> FALSE] :
        r \in 1..2, c \in 1..2}
RenderDimensions ==
    UNION {TableDimensionsChoices(inp) : inp \in RenderDimensionsInputs}

\* The TableData objects handed to render: a body of up to three cells, with
\* or without headers, every slot holding the same text of one or of three
\* words.
RenderTexts == {"i", "i i i"}
RenderShapes == {<<1, 1>>, <<1, 2>>, <<2, 1>>}
Filled(t, text) ==
    [t EXCEPT !.data = [i \in DOMAIN t.data |->
                           [j \in DOMAIN t.data[i] |-> text]],
              !.column_headers = [j \in DOMAIN t.column_headers |-> text],
              !.row_headers = [i \in DOMAIN t.row_headers |-> text]]
RenderTables ==
    {Filled(TableData(rc[1], rc[2], hc, hr), text) :
        rc \in RenderShapes, hc \in BOOLEAN, hr \in BOOLEAN,
        text \in RenderTexts}

\* font_size arguments: None (NoFontSize), a size of the drawn range, one
\* outside it. Of the sizes drawn, the two ends of the range are followed.
NoFontSize == 0 - 1
FontSizeArgs == {NoFontSize, MinFontSize, MaxFontSize + 4}
FontSizeDraws == RandInt(MinFontSize, MaxFontSize) \cap {MinFontSize, MaxFontSize}
\* The font files of the machine: all the code asks for, the system
\* collection alone, the bold face alone, a face the code never asks for, none.
OtherFile == "DejaVuSans.ttf"
InstalledChoices == {FontFiles, {SystemFile}, {BoldFile}, {OtherFile}, {}}
VisualizerModes == {"word", "none", "char"}

NoVisualizer == [wrap_mode |-> "word", font |-> NoFont, header_font |-> NoFont,
                 font_size |-> 0]
NoRenderCall == [table_data |-> NoTable, dimensions |-> NoDims,
                 font_size |-> NoFontSize]

\* TableVisualizer(wrap_mode), on a machine with some font files installed.
NewVisualizer ==
    /\ renderPc = "none"
    /\ \E wrap_mode \in VisualizerModes, files \in InstalledChoices :
        /\ visualizer' = [NoVisualizer EXCEPT !.wrap_mode = wrap_mode]
        /\ installed' = files
    /\ renderPc' = "ready"
    /\ UNCHANGED <<renderCall, image, renders>>
    /\ UNCHANGED <<cliVars, planVars, dimsVars, dataVars, wrapVars, makerVars>>

\* _initialize_fonts(font_size): the visualizer afterwards. font_size is
\* assigned before the fonts are opened.
InitializedFonts(v, files, size) ==
    IF RegularFontRaises(files)
    THEN [v EXCEPT !.font_size = size]
    ELSE [v EXCEPT !.font_size = size,
                   !.font = RegularFont(files, size),
                   !.header_font = HeaderFont(files, size,
                                              RegularFont(files, size))]

\* The image render returns.
RenderedImage(t, dimensions, v) ==
    [width |-> ImageWidth(dimensions),
     height |-> ImageHeight(dimensions),
     vertical |-> GridLines(dimensions.column_widths, dimensions.row_heights,
                            dimensions.vertical_styles, dimensions.margin),
     horizontal |-> GridLines(dimensions.row_heights, dimensions.column_widths,
                              dimensions.horizontal_styles, dimensions.margin),
     cells |-> DrawnCells(t, dimensions.column_widths, dimensions.row_heights,
                          dimensions.margin, v.font, v.header_font, v.wrap_mode)]

\* TableVisualizer.render(table_data, dimensions, font_size). After the first
\* call the same table is rendered again, with any font_size.
render ==
    /\ renderPc \in {"ready", "rendered", "raised"}
    /\ renders < MaxRenders
    /\ \E table_data \in (IF renders = 0 THEN RenderTables
                          ELSE {renderCall.table_data}),
          dimensions \in (IF renders = 0 THEN RenderDimensions
                          ELSE {renderCall.dimensions}),
          font_size \in FontSizeArgs :
       LET initialize == visualizer.font = NoFont \/ font_size # NoFontSize
       IN
       \E size \in (IF ~initialize THEN {visualizer.font_size}
                    ELSE IF font_size = NoFontSize THEN FontSizeDraws
                    ELSE {font_size}) :
       LET v == IF initialize
                THEN InitializedFonts(visualizer, installed, size)
                ELSE visualizer
       IN
        /\ renderCall' = [table_data |-> table_data, dimensions |-> dimensions,
                          font_size |-> font_size]
        /\ visualizer' = v
        /\ IF (initialize /\ RegularFontRaises(installed))
              \/ DrawRaises(table_data, dimensions.column_widths,
                            dimensions.row_heights)
           THEN /\ image' = NoImage
                /\ renderPc' = "raised"
           ELSE /\ image' = RenderedImage(table_data, dimensions, v)
                /\ renderPc' = "rendered"
    /\ renders' = renders + 1
    /\ UNCHANGED installed
    /\ UNCHANGED <<cliVars, planVars, dimsVars, dataVars, wrapVars, makerVars>>

----------------------------------------------------------------------------
(* maker.py: generate_table and generate_tables                            *)
(* A path is the record of its directory, the stem and number of its file  *)
(* name and its extension. The disk is the set of directories made and of  *)
(* files written; of what a file holds the disk keeps which generate_table *)
(* call wrote it (0 for a call made on its own, n for the n-th call of a   *)
(* batch) and whether it was written to the end. Which Faker text a cell   *)
(* gets (large_number_probability) is not followed.                        *)

ImagesDir == "images"
JsonDir == "json"
ImageExt == ".png"
JsonExt == ".json"
CurrentDir == "."

\* Slip: the tables of a batch numbered from 0.
Filename_FromZero(i, count) ==
    IF count > 1 THEN [stem |-> "table_", number |-> i]
    ELSE [stem |-> "table", number |-> 0]
\* f"table_{i + 1}" if count > 1 else "table"
Filename(i, count) ==
    IF count > 1 THEN [stem |-> "table_", number |-> i + 1]
    ELSE [stem |-> "table", number |-> 0]

\* dir / f"{filename}{ext}"
PathOf(dir, filename, ext) ==
    [dir |-> dir, stem |-> filename.stem, number |-> filename.number,
     ext |-> ext]
NoPath == [dir |-> None, stem |-> None, number |-> 0, ext |-> None]
\* output_paths=None
NoPaths == [image |-> NoPath, json |-> NoPath]

\* Path.mkdir(parents=True, exist_ok=True)
Mkdir(d, dir) == [d EXCEPT !.dirs = @ \cup {dir}]
\* A file written to the end replaces what its path held.
Written(d, path, call) ==
    [d EXCEPT !.files = {f \in @ : f.path # path}
                        \cup {[path |-> path, complete |-> TRUE,
                               written_by |-> call]}]
\* A write that raises OSError leaves the disk as it was or leaves a file
\* that is not complete.
Interrupted(d, path, call) ==
    {d, [d EXCEPT !.files = {f \in @ : f.path # path}
                            \cup {[path |-> path, complete |-> FALSE,
                                   written_by |-> call]}]}
EmptyDisk == [dirs |-> {}, files |-> {}]

\* The style lists followed through generate_table: see LineStylesChoices.
LineStylesFollowed(rows, columns, is_normal) ==
    IF is_normal THEN LineStylesChoices(rows, columns, TRUE)
    ELSE {[horizontal |-> [i \in 1..(rows + 1) |-> style],
           vertical |-> [i \in 1..(columns + 1) |-> style]] :
             style \in LineStyles}

\* The pixel draws followed through generate_table: both totals at the lower
\* end of their ranges, or both at the upper end.
TotalsFollowed(margin, rows, columns) ==
    {wh \in {<<WidthLower(columns), HeightLower(rows)>>,
             <<MaxWidth(margin), MaxHeight(margin)>>} :
        TotalsDrawn(margin, rows, columns, wh[1], wh[2])}

\* generate_cell_content(rows, columns, ...): what the call can do, a raise
\* out of random.randint or a returned dictionary.
CellContentOutcomes(c) ==
    UNION {
      LET data_rows == DataRows(c.rows, has_column_headers)
          data_columns == DataColumns(c.columns, has_row_headers)
          r == ContentDict(data_rows, data_columns,
                           has_column_headers, has_row_headers)
      IN
      UNION {
        (IF EmptyColumnRaises(data_columns, c.is_normal,
                              c.empty_column_probability)
         THEN {[raised |-> TRUE, result |-> NoDict]} ELSE {})
        \cup
        UNION {
          {[raised |-> FALSE,
            result |-> [r EXCEPT !.column_headers = ch,
                                 !.row_headers = rh,
                                 !.data = d]] :
              ch \in ColumnHeaderChoices(r.column_headers, has_column_headers,
                                         data_columns, e_column),
              rh \in RowHeaderChoices(r.row_headers, has_row_headers,
                                      data_rows, e_rows),
              d \in DataChoices(r.data, data_rows, data_columns, e_rows,
                                e_column, c.empty_cell_probability)} :
            e_column \in EmptyColumnChoices(data_columns, c.is_normal,
                                            c.empty_column_probability)} :
          e_rows \in EmptyRowsChoices(data_rows, c.is_normal,
                                      c.empty_row_probability)} :
        has_column_headers \in Flip(c.column_header_probability),
        has_row_headers \in Flip(c.row_header_probability)}

\* Keyword arguments tried, shared by generate_table and generate_tables.
\* is_normal is None, "True" or "False".
MakerDefaults ==
    [min_rows |-> 1, min_columns |-> 1, max_rows |-> 2, max_columns |-> 2,
     is_normal |-> None, normal_probability |-> Half, margin |-> 10,
     empty_row_probability |-> 0, empty_column_probability |-> 0,
     empty_cell_probability |-> Half,
     column_header_probability |-> 0, row_header_probability |-> 0,
     wrap_mode |-> "word"]
\* The style left to the draw; both styles, with and without headers.
PlainConfigs ==
    {MakerDefaults}
    \cup
    {[MakerDefaults EXCEPT !.is_normal = n,
                           !.column_header_probability = chp,
                           !.row_header_probability = rhp] :
        n \in {"True", "False"}, chp \in {0, One}, rhp \in {0, One}}
\* The other wrap modes; rows and a column forced empty, which raises when
\* the row headers leave no data column; a margin that leaves no height range.
OtherConfigs ==
    {[MakerDefaults EXCEPT !.is_normal = "True", !.wrap_mode = w,
                           !.column_header_probability = One,
                           !.row_header_probability = One] :
        w \in {"char", "none"}}
    \cup
    {[MakerDefaults EXCEPT !.is_normal = "False",
                           !.empty_row_probability = Half,
                           !.empty_column_probability = One,
                           !.row_header_probability = One],
     [MakerDefaults EXCEPT !.margin = 551]}
\* Arguments outside their domains: min_rows above max_rows, no rows allowed,
\* a negative margin, a probability above 1.
InvalidConfigs ==
    {[MakerDefaults EXCEPT !.is_normal = "True", !.min_rows = 2, !.max_rows = 1],
     [MakerDefaults EXCEPT !.is_normal = "True", !.min_rows = 0, !.max_rows = 0],
     [MakerDefaults EXCEPT !.is_normal = "True", !.margin = 0 - 1],
     [MakerDefaults EXCEPT !.is_normal = "True",
                           !.column_header_probability = One + 1]}
MakerConfigs == PlainConfigs \cup OtherConfigs \cup InvalidConfigs
\* The batches: uniform tables with both headers, and varied tables whose
\* content synthesis raises when one column is drawn with a row header.
BatchConfigs ==
    {[MakerDefaults EXCEPT !.is_normal = "True",
                           !.column_header_probability = One,
                           !.row_header_probability = One],
     [MakerDefaults EXCEPT !.is_normal = "False",
                           !.empty_cell_probability = 0,
                           !.empty_column_probability = One,
                           !.row_header_probability = One]}
MachineFonts == {FontFiles, {}}
\* output_dir is a directory, or None with the default arguments.
OutputDirs(c) == IF c = MakerDefaults THEN {None, "out"} ELSE {"out"}

NoFrame ==
    [output_dir |-> None, output_filename |-> Filename(0, 1),
     output_paths |-> NoPaths,
     rows |-> 0, columns |-> 0, total_width |-> 0, total_height |-> 0,
     is_normal |-> TRUE, column_widths |-> <<>>, row_heights |-> <<>>,
     font_size |-> 0, font |-> NoFont,
     line_styles |-> [horizontal |-> <<>>, vertical |-> <<>>],
     image |-> NoImage, table_data |-> NoDict, header_font |-> NoFont,
     addressed |-> {}, image_path |-> NoPath, json_path |-> NoPath,
     stages |-> <<>>, error |-> None]
NoBatch == [count |-> 0, i |-> 0, results |-> <<>>]

\* Slip: the loop of generate_tables goes on after a table has raised.
Propagated_Swallowed(pc) == IF pc = "call" THEN "loop" ELSE pc
\* No handler anywhere: an exception raised inside generate_table leaves
\* generate_tables too.
Propagated(pc) == IF pc = "call" THEN "raised" ELSE pc

\* The statements of generate_table in the order they run, each named by
\* what it produces.
StageOrder_ContentFirst ==
    <<"plan", "sizes", "font", "styles", "content", "image", "header_font",
      "text", "paths", "save_image", "save_json">>
\* Slip: the JSON file is written before the image file.
StageOrder_JsonFirst ==
    <<"plan", "sizes", "font", "styles", "image", "content", "header_font",
      "text", "paths", "save_json", "save_image">>
StageOrder ==
    <<"plan", "sizes", "font", "styles", "image", "content", "header_font",
      "text", "paths", "save_image", "save_json">>
StageAfter(stage) ==
    LET k == CHOOSE n \in DOMAIN StageOrder : StageOrder[n] = stage
    IN  IF k = Len(StageOrder) THEN "returned" ELSE StageOrder[k + 1]

\* A stage ends: by raising, or with new locals.
Raise(f, error) ==
    /\ frame' = [f EXCEPT !.error = error]
    /\ gtPc' = "raised"
    /\ batchPc' = Propagated(batchPc)
Proceed(f) ==
    /\ frame' = [f EXCEPT !.stages = Append(@, gtPc)]
    /\ gtPc' = StageAfter(gtPc)
    /\ UNCHANGED batchPc

\* generate_table called on its own, with output_dir and the default
\* output_filename.
generate_table ==
    /\ batchPc = "idle"
    /\ gtPc = "idle"
    /\ \E c \in MakerConfigs, files \in MachineFonts :
       \E output_dir \in OutputDirs(c) :
        /\ config' = c
        /\ installed' = files
        /\ frame' = [NoFrame EXCEPT !.output_dir = output_dir]
    /\ gtPc' = StageOrder[1]
    /\ batchPc' = "none"
    /\ UNCHANGED <<batch, calls, disk>>
    /\ UNCHANGED <<cliVars, planVars, dimsVars, dataVars, wrapVars, renderVars>>

\* generate_tables, up to its loop: the two directories are made.
generate_tables ==
    /\ batchPc = "idle"
    /\ gtPc = "idle"
    /\ \E count \in 0..MaxCount, c \in BatchConfigs, files \in MachineFonts :
        /\ config' = c
        /\ installed' = files
        /\ batch' = [count |-> count, i |-> 0, results |-> <<>>]
    /\ disk' = Mkdir(Mkdir(disk, ImagesDir), JsonDir)
    /\ batchPc' = "loop"
    /\ UNCHANGED <<frame, gtPc, calls>>
    /\ UNCHANGED <<cliVars, planVars, dimsVars, dataVars, wrapVars, renderVars>>

\* One turn of the loop: the file name, the output paths and the call.
GenerateTablesCall ==
    /\ batchPc = "loop"
    /\ batch.i < batch.count
    /\ LET filename == Filename(batch.i, batch.count)
       IN  frame' = [NoFrame EXCEPT
                        !.output_filename = filename,
                        !.output_paths =
                            [image |-> PathOf(ImagesDir, filename, ImageExt),
                             json |-> PathOf(JsonDir, filename, JsonExt)]]
    /\ gtPc' = StageOrder[1]
    /\ batchPc' = "call"
    /\ calls' = Append(calls, batch.i)
    /\ UNCHANGED <<config, installed, batch, disk>>
    /\ UNCHANGED <<cliVars, planVars, dimsVars, dataVars, wrapVars, renderVars>>

\* results.append((image_path, json_path)) and the next i; the locals of the
\* call that returned are gone.
GenerateTablesAppend ==
    /\ batchPc = "call"
    /\ gtPc = "returned"
    /\ batch' = [batch EXCEPT
                    !.results = Append(@, <<frame.image_path, frame.json_path>>),
                    !.i = @ + 1]
    /\ batchPc' = "loop"
    /\ gtPc' = "idle"
    /\ frame' = NoFrame
    /\ UNCHANGED <<config, installed, calls, disk>>
    /\ UNCHANGED <<cliVars, planVars, dimsVars, dataVars, wrapVars, renderVars>>

\* return results
GenerateTablesReturn ==
    /\ batchPc = "loop"
    /\ batch.i >= batch.count
    /\ batchPc' = "returned"
    /\ UNCHANGED <<config, installed, batch, frame, gtPc, calls, disk>>
    /\ UNCHANGED <<cliVars, planVars, dimsVars, dataVars, wrapVars, renderVars>>

\* Lines 390-397: generate_table_dimensions
TablePlan ==
    /\ gtPc = "plan"
    /\ \E rows \in RandInt(config.min_rows,
                           RowsUpper(config.min_rows, config.max_rows)),
          columns \in RandInt(config.min_columns,
                              ColumnsUpper(config.min_columns,
                                           config.max_columns)) :
        \/ /\ \/ RandIntRaises(WidthLower(columns), MaxWidth(config.margin))
              \/ RandIntRaises(HeightLower(rows), MaxHeight(config.margin))
           /\ Raise(frame, "ValueError")
        \/ \E wh \in TotalsFollowed(config.margin, rows, columns) :
             Proceed([frame EXCEPT !.rows = rows, !.columns = columns,
                                   !.total_width = wh[1],
                                   !.total_height = wh[2]])
    /\ UNCHANGED <<config, installed, batch, calls, disk>>
    /\ UNCHANGED <<cliVars, planVars, dimsVars, dataVars, wrapVars, renderVars>>

\* Lines 399-409: is_normal and the two generate_cell_sizes calls
TableSizes ==
    /\ gtPc = "sizes"
    /\ \E is_normal \in (IF config.is_normal = None
                         THEN Flip(config.normal_probability)
                         ELSE {config.is_normal = "True"}) :
        IF \/ CellSizesRaises(frame.columns, frame.total_width,
                              MinColumnWidth, is_normal)
           \/ CellSizesRaises(frame.rows, frame.total_height,
                              MinRowHeight, is_normal)
        THEN Raise([frame EXCEPT !.is_normal = is_normal],
                   IF is_normal THEN "ZeroDivisionError" ELSE "ValueError")
        ELSE \E column_widths \in CellSizesChoices(frame.columns,
                                    frame.total_width, MinColumnWidth, is_normal),
                row_heights \in CellSizesChoices(frame.rows,
                                    frame.total_height, MinRowHeight, is_normal) :
               Proceed([frame EXCEPT !.is_normal = is_normal,
                                     !.column_widths = column_widths,
                                     !.row_heights = row_heights])
    /\ UNCHANGED <<config, installed, batch, calls, disk>>
    /\ UNCHANGED <<cliVars, planVars, dimsVars, dataVars, wrapVars, renderVars>>

\* Lines 411-416: the font size and the regular font
TableFont ==
    /\ gtPc = "font"
    /\ \E font_size \in FontSizeDraws :
        IF RegularFontRaises(installed)
        THEN Raise([frame EXCEPT !.font_size = font_size], "OSError")
        ELSE Proceed([frame EXCEPT !.font_size = font_size,
                                   !.font = RegularFont(installed, font_size)])
    /\ UNCHANGED <<config, installed, batch, calls, disk>>
    /\ UNCHANGED <<cliVars, planVars, dimsVars, dataVars, wrapVars, renderVars>>

\* Lines 418-419: generate_line_styles
TableStyles ==
    /\ gtPc = "styles"
    /\ \E line_styles \in LineStylesFollowed(frame.rows, frame.columns,
                                            frame.is_normal) :
        Proceed([frame EXCEPT !.line_styles = line_styles])
    /\ UNCHANGED <<config, installed, batch, calls, disk>>
    /\ UNCHANGED <<cliVars, planVars, dimsVars, dataVars, wrapVars, renderVars>>

\* Lines 421-426: Image.new and draw_grid
TableImage ==
    /\ gtPc = "image"
    /\ LET dimensions == [total_width |-> frame.total_width,
                          total_height |-> frame.total_height,
                          margin |-> config.margin,
                          column_widths |-> frame.column_widths,
                          row_heights |-> frame.row_heights]
       IN  Proceed([frame EXCEPT !.image =
              [width |-> ImageWidth(dimensions),
               height |-> ImageHeight(dimensions),
               vertical |-> GridLines(frame.column_widths, frame.row_heights,
                                      frame.line_styles.vertical, config.margin),
               horizontal |-> GridLines(frame.row_heights, frame.column_widths,
                                        frame.line_styles.horizontal,
                                        config.margin),
               cells |-> {}]])
    /\ UNCHANGED <<config, installed, batch, calls, disk>>
    /\ UNCHANGED <<cliVars, planVars, dimsVars, dataVars, wrapVars, renderVars>>

\* Lines 428-448: generate_cell_content
TableContent ==
    /\ gtPc = "content"
    /\ \E outcome \in CellContentOutcomes(
            [rows |-> frame.rows, columns |-> frame.columns,
             is_normal |-> frame.is_normal,
             empty_row_probability |-> config.empty_row_probability,
             empty_column_probability |-> config.empty_column_probability,
             empty_cell_probability |-> config.empty_cell_probability,
             column_header_probability |-> config.column_header_probability,
             row_header_probability |-> config.row_header_probability]) :
        IF outcome.raised
        THEN Raise(frame, "ValueError")
        ELSE Proceed([frame EXCEPT !.table_data = outcome.result])
    /\ UNCHANGED <<config, installed, batch, calls, disk>>
    /\ UNCHANGED <<cliVars, planVars, dimsVars, dataVars, wrapVars, renderVars>>

\* Lines 453-463: the header font
TableHeaderFont ==
    /\ gtPc = "header_font"
    /\ Proceed([frame EXCEPT !.header_font =
                    HeaderFont(installed, frame.font_size, frame.font)])
    /\ UNCHANGED <<config, installed, batch, calls, disk>>
    /\ UNCHANGED <<cliVars, planVars, dimsVars, dataVars, wrapVars, renderVars>>

\* Lines 465-566: the corner header, the headers and the data cells
TableText ==
    /\ gtPc = "text"
    /\ LET addressed == {[kind |-> cell.kind, i |-> cell.i, j |-> cell.j,
                          row |-> cell.row, column |-> cell.column] :
                            cell \in AddressedCells(frame.table_data)}
       IN  IF DrawRaises(frame.table_data, frame.column_widths,
                         frame.row_heights)
           THEN Raise([frame EXCEPT !.addressed = addressed], "IndexError")
           ELSE Proceed([frame EXCEPT
                    !.addressed = addressed,
                    !.image.cells =
                        DrawnCells(frame.table_data, frame.column_widths,
                                   frame.row_heights, config.margin, frame.font,
                                   frame.header_font, config.wrap_mode)])
    /\ UNCHANGED <<config, installed, batch, calls, disk>>
    /\ UNCHANGED <<cliVars, planVars, dimsVars, dataVars, wrapVars, renderVars>>

\* Lines 568-589: the output paths and their directories
TablePaths ==
    /\ gtPc = "paths"
    /\ LET output_dir == IF frame.output_dir = None THEN CurrentDir
                         ELSE frame.output_dir
           image_path == IF frame.output_paths # NoPaths
                         THEN frame.output_paths.image
                         ELSE PathOf(output_dir, frame.output_filename, ImageExt)
           json_path == IF frame.output_paths # NoPaths
                        THEN frame.output_paths.json
                        ELSE PathOf(output_dir, frame.output_filename, JsonExt)
           made == IF frame.output_paths # NoPaths THEN disk
                   ELSE Mkdir(disk, output_dir)
       IN  /\ Proceed([frame EXCEPT !.image_path = image_path,
                                    !.json_path = json_path])
           /\ disk' = Mkdir(Mkdir(made, image_path.dir), json_path.dir)
    /\ UNCHANGED <<config, installed, batch, calls>>
    /\ UNCHANGED <<cliVars, planVars, dimsVars, dataVars, wrapVars, renderVars>>

\* Lines 591-592: image.save
TableSaveImage ==
    /\ gtPc = "save_image"
    /\ \/ /\ Proceed(frame)
          /\ disk' = Written(disk, frame.image_path, Len(calls))
       \/ /\ Raise(frame, "OSError")
          /\ disk' \in Interrupted(disk, frame.image_path, Len(calls))
    /\ UNCHANGED <<config, installed, batch, calls>>
    /\ UNCHANGED <<cliVars, planVars, dimsVars, dataVars, wrapVars, renderVars>>

\* Lines 594-598: json.dump and the return
TableSaveJson ==
    /\ gtPc = "save_json"
    /\ \/ /\ Proceed(frame)
          /\ disk' = Written(disk, frame.json_path, Len(calls))
       \/ /\ Raise(frame, "OSError")
          /\ disk' \in Interrupted(disk, frame.json_path, Len(calls))
    /\ UNCHANGED <<config, installed, batch, calls>>
    /\ UNCHANGED <<cliVars, planVars, dimsVars, dataVars, wrapVars, renderVars>>

----------------------------------------------------------------------------
(* cli.py: parse_args and main                                             *)
(* An argument of the command line is the sequence of its parts: "--" and  *)
(* the words of a long option, "-" and the letter of a short one, or one   *)
(* value. argparse takes a prefix of a long option for the option when it  *)
(* is the prefix of one option only; prefixes are followed word by word.   *)
(* A float is the integer number of its hundredths. -h/--help, which       *)
(* argparse adds by itself, is not among the arguments tried.              *)

Long(words) == <<"--">> \o words
Short(letter) == <<"-", letter>>
Value(v) == <<v>>

\* The add_argument calls of parse_args.
Options ==
    {[name |-> <<"count">>, short |-> "c", dest |-> "count",
      type |-> "int", choices |-> {}],
     [name |-> <<"min", "rows">>, short |-> "r", dest |-> "min_rows",
      type |-> "int", choices |-> {}],
     [name |-> <<"min", "columns">>, short |-> "m", dest |-> "min_columns",
      type |-> "int", choices |-> {}],
     [name |-> <<"max", "rows">>, short |-> None, dest |-> "max_rows",
      type |-> "int", choices |-> {}],
     [name |-> <<"max", "columns">>, short |-> None, dest |-> "max_columns",
      type |-> "int", choices |-> {}],
     [name |-> <<"output">>, short |-> "o", dest |-> "output",
      type |-> "str", choices |-> {}],
     [name |-> <<"style">>, short |-> None, dest |-> "style",
      type |-> "str", choices |-> {"uniform", "random", "mixed"}],
     [name |-> <<"margin">>, short |-> None, dest |-> "margin",
      type |-> "int", choices |-> {}],
     [name |-> <<"sparsity">>, short |-> None, dest |-> "sparsity",
      type |-> "float", choices |-> {}],
     [name |-> <<"allow", "empty", "rows">>, short |-> None,
      dest |-> "allow_empty_rows", type |-> "store_true", choices |-> {}],
     [name |-> <<"allow", "empty", "columns">>, short |-> None,
      dest |-> "allow_empty_columns", type |-> "store_true", choices |-> {}],
     [name |-> <<"wrap", "mode">>, short |-> None, dest |-> "wrap_mode",
      type |-> "str", choices |-> {"word", "char", "none"}],
     [name |-> <<"large", "number", "probability">>, short |-> None,
      dest |-> "large_number_probability", type |-> "float", choices |-> {}],
     [name |-> <<"headers">>, short |-> None, dest |-> "headers",
      type |-> "str", choices |-> {"none", "column", "row", "both"}]}

\* The namespace of the defaults.
CliDefaults ==
    [count |-> 1, min_rows |-> 1, min_columns |-> 1, max_rows |-> 15,
     max_columns |-> 40, output |-> None, style |-> "mixed", margin |-> 10,
     sparsity |-> 20, allow_empty_rows |-> FALSE,
     allow_empty_columns |-> FALSE, wrap_mode |-> "word",
     large_number_probability |-> 5, headers |-> "none"]

\* int(v) and float(v) of the values tried; any other value is not a number.
IntValues == ("1" :> 1) @@ ("2" :> 2) @@ ("3" :> 3)
FloatValues == ("0.5" :> 50) @@ ("1" :> 100) @@ ("2" :> 200) @@ ("3" :> 300)
ValidValue(o, v) ==
    CASE o.type = "int" -> v \in DOMAIN IntValues
      [] o.type = "float" -> v \in DOMAIN FloatValues
      [] OTHER -> o.choices = {} \/ v \in o.choices
Converted(o, v) ==
    CASE o.type = "int" -> IntValues[v]
      [] o.type = "float" -> FloatValues[v]
      [] OTHER -> v

IsOption(token) == Head(token) \in {"--", "-"}
IsPrefix(s, t) == Len(s) <= Len(t) /\ SubSeq(t, 1, Len(s)) = s
\* The options a token stands for: the one of that name, else all it is a
\* prefix of.
Matching(token) ==
    IF Head(token) = "-"
    THEN {o \in Options : o.short = token[2]}
    ELSE LET exact == {o \in Options : o.name = Tail(token)}
         IN  IF exact # {} THEN exact
             ELSE {o \in Options : IsPrefix(Tail(token), o.name)}

\* parser.error(...): SystemExit(2)
ParserError == [exited |-> TRUE, namespace |-> CliDefaults]

\* parser.parse_args(): the arguments from left to right. An argument that
\* is no option of the parser is set aside and is an error at the end.
RECURSIVE ParseLoop(_, _, _)
ParseLoop(arguments, namespace, unrecognized) ==
    IF arguments = <<>>
    THEN IF unrecognized THEN ParserError
         ELSE [exited |-> FALSE, namespace |-> namespace]
    ELSE LET token == Head(arguments)
             rest == Tail(arguments)
         IN
         IF ~IsOption(token) \/ Matching(token) = {}
         THEN ParseLoop(rest, namespace, TRUE)
         ELSE IF Cardinality(Matching(token)) > 1
         THEN ParserError
         ELSE LET o == CHOOSE x \in Matching(token) : TRUE
              IN
              IF o.type = "store_true"
              THEN ParseLoop(rest, [namespace EXCEPT ![o.dest] = TRUE],
                             unrecognized)
              ELSE IF rest = <<>> \/ IsOption(Head(rest))
              THEN ParserError
              ELSE IF ~ValidValue(o, Head(rest)[1])
              THEN ParserError
              ELSE ParseLoop(Tail(rest),
                             [namespace EXCEPT
                                ![o.dest] = Converted(o, Head(rest)[1])],
                             unrecognized)
ParseArgs(arguments) == ParseLoop(arguments, CliDefaults, FALSE)

\* The keyword arguments main computes from the namespace.
Kwargs(a) ==
    [count |-> a.count,
     min_rows |-> a.min_rows, min_columns |-> a.min_columns,
     max_rows |-> a.max_rows, max_columns |-> a.max_columns,
     output_dir |-> IF a.output \in {None, ""} THEN None ELSE a.output,
     is_normal |-> IF a.style = "uniform" THEN "True"
                   ELSE IF a.style = "random" THEN "False" ELSE None,
     normal_probability |-> IF a.style = "mixed" THEN 50 ELSE 100,
     margin |-> a.margin,
     empty_row_probability |->
        IF a.allow_empty_rows /\ a.style # "uniform" THEN 30 ELSE 0,
     empty_column_probability |->
        IF a.allow_empty_columns /\ a.style # "uniform" THEN 30 ELSE 0,
     empty_cell_probability |-> a.sparsity,
     large_number_probability |-> a.large_number_probability,
     column_header_probability |->
        IF a.headers \in {"column", "both"} THEN 100 ELSE 0,
     row_header_probability |->
        IF a.headers \in {"row", "both"} THEN 100 ELSE 0,
     wrap_mode |-> a.wrap_mode]

\* The command lines tried: one choice of each group, in this order.
CountArgs ==
    {<<>>, <<Long(<<"count">>), Value("1")>>, <<Short("c"), Value("2")>>,
     <<Long(<<"count">>), Value("x")>>}
StyleArgs ==
    {<<>>, <<Long(<<"style">>), Value("uniform")>>,
     <<Long(<<"style">>), Value("random")>>,
     <<Long(<<"style">>), Value("plain")>>}
StyleFlagArgs ==
    {<<>>, <<Long(<<"normal">>)>>, <<Long(<<"random">>)>>,
     <<Long(<<"normal">>), Long(<<"random">>)>>}
HeaderArgs ==
    {<<>>, <<Long(<<"headers">>), Value("both")>>,
     <<Long(<<"headers">>), Value("row")>>}
EmptyArgs ==
    {<<>>, <<Long(<<"allow", "empty", "rows">>)>>,
     <<Long(<<"allow", "empty", "rows">>),
       Long(<<"allow", "empty", "columns">>)>>,
     <<Long(<<"allow", "empty">>)>>}
SizeArgs ==
    {<<>>, <<Long(<<"max">>), Value("3")>>,
     <<Long(<<"min", "rows">>), Value("2"), Long(<<"max", "rows">>), Value("3")>>,
     <<Long(<<"sparsity">>), Value("0.5")>>}
CliArgvs ==
    {c \o z \o s \o f \o h \o e :
        c \in CountArgs, z \in SizeArgs, s \in StyleArgs,
        f \in StyleFlagArgs, h \in HeaderArgs, e \in EmptyArgs}

\* parse_args() called with sys.argv[1:] = arguments
parse_args ==
    /\ cliPc = "idle"
    /\ \E arguments \in CliArgvs :
        /\ argv' = arguments
        /\ args' = ParseArgs(arguments).namespace
        /\ cliPc' = IF ParseArgs(arguments).exited THEN "exited" ELSE "parsed"
    /\ UNCHANGED kwargs
    /\ UNCHANGED <<planVars, dimsVars, dataVars, wrapVars, renderVars, envVars,
                   makerVars>>

\* main(): parse_args, then generate_tables with the keyword arguments
\* computed from the namespace; what that call does is generate_tables.
main ==
    /\ cliPc = "idle"
    /\ \E arguments \in CliArgvs :
        /\ argv' = arguments
        /\ args' = ParseArgs(arguments).namespace
        /\ IF ParseArgs(arguments).exited
           THEN /\ cliPc' = "exited"
                /\ UNCHANGED kwargs
           ELSE /\ cliPc' = "called"
                /\ kwargs' = Kwargs(ParseArgs(arguments).namespace)
    /\ UNCHANGED <<planVars, dimsVars, dataVars, wrapVars, renderVars, envVars,
                   makerVars>>

----------------------------------------------------------------------------
(* Specifications *)

Init ==
    /\ planCall = [margin |-> 0, min_rows |-> 0, max_rows |-> 0,
                   min_columns |-> 0, max_columns |-> 0]
    /\ planRet = NoPlan
    /\ planPc = "idle"
    /\ dims = NoDims
    /\ dimsPc = "idle"
    /\ sizes = <<>>
    /\ remaining = 0
    /\ genCall = NoCall
    /\ empty_rows = <<>>
    /\ empty_column = NoColumn
    /\ table = NoTable
    /\ tableFrom = "none"
    /\ result = NoDict
    /\ data_dict = NoDict
    /\ instance = NoTable
    /\ dataPc = "idle"
    /\ wrapCall = NoWrapCall
    /\ wrapLines = <<>>
    /\ wrapPc = "idle"
    /\ visualizer = NoVisualizer
    /\ installed = {}
    /\ renderCall = NoRenderCall
    /\ image = NoImage
    /\ renders = 0
    /\ renderPc = "none"
    /\ config = MakerDefaults
    /\ batch = NoBatch
    /\ batchPc = "idle"
    /\ calls = <<>>
    /\ frame = NoFrame
    /\ gtPc = "idle"
    /\ disk = EmptyDisk
    /\ argv = <<>>
    /\ args = CliDefaults
    /\ kwargs = Kwargs(CliDefaults)
    /\ cliPc = "idle"

\* generate_table_dimensions alone.
NextPlan == generate_table_dimensions
SpecPlan == Init /\ [][NextPlan]_vars

\* The TableDimensions constructor.
NextDims ==
    \/ TableDimensionsInit
    \/ GenerateCellSizesEnter
    \/ GenerateCellSizesStep
    \/ GenerateCellSizesReturn
    \/ GenerateLineStyles
SpecDims == Init /\ [][NextDims]_vars

\* TableData, its dictionary form and the two content synthesizers.
NextData ==
    \/ NewTableData
    \/ to_dict
    \/ from_dict
    \/ generate_table_data
    \/ generate_cell_content
SpecData == Init /\ [][NextData]_vars

\* Text wrapping on its own.
NextWrap == wrap_text \/ _wrap_text
SpecWrap == Init /\ [][NextWrap]_vars

\* One TableVisualizer and the render calls made on it.
NextRender == NewVisualizer \/ render
SpecRender == Init /\ [][NextRender]_vars

\* generate_table on its own and under generate_tables.
NextMaker ==
    \/ generate_table
    \/ generate_tables
    \/ GenerateTablesCall
    \/ GenerateTablesAppend
    \/ GenerateTablesReturn
    \/ TablePlan
    \/ TableSizes
    \/ TableFont
    \/ TableStyles
    \/ TableImage
    \/ TableContent
    \/ TableHeaderFont
    \/ TableText
    \/ TablePaths
    \/ TableSaveImage
    \/ TableSaveJson
SpecMaker == Init /\ [][NextMaker]_vars

\* The command line alone.
NextCli == parse_args \/ main
SpecCli == Init /\ [][NextCli]_vars

Next ==
    NextPlan \/ NextDims \/ NextData \/ NextWrap \/ NextRender \/ NextMaker
    \/ NextCli
Spec == Init /\ [][Next]_vars

----------------------------------------------------------------------------
(* Claims about the dimension planner *)

\* Some call of generate_table_dimensions tried by the model can return the
\* rows, columns and totals of plan d.
PlannerCanReturn(d) ==
    \E m \in MarginCands :
        /\ TotalsDrawn(m, d.rows, d.columns, d.total_width, d.total_height)
        /\ \E a \in PlanArgs :
             a.margin = m /\ CountsDrawn(a, d.rows, d.columns)

\* C1: a constructed TableDimensions has `columns` widths summing to
\* total_width and `rows` heights summing to total_height, in both modes and
\* for every total.
C1_SizesSumToTotal ==
    dimsPc = "done" =>
        /\ Len(dims.column_widths) = dims.columns
        /\ SumSeq(dims.column_widths) = dims.total_width
        /\ Len(dims.row_heights) = dims.rows
        /\ SumSeq(dims.row_heights) = dims.total_height

\* C2: in a plan built from a tuple that generate_table_dimensions returns,
\* every column width is at least 40 and every row height at least 30.
C2_PlannedSizesAtLeastFloor ==
    (dimsPc = "done" /\ PlannerCanReturn(dims)) =>
        /\ \A i \in 1..Len(dims.column_widths) : dims.column_widths[i] >= 40
        /\ \A i \in 1..Len(dims.row_heights) : dims.row_heights[i] >= 30

\* A varied two-column plan of planner size whose pixels went to both columns.
C2_Witness ==
    /\ dimsPc = "done"
    /\ PlannerCanReturn(dims)
    /\ ~dims.is_uniform
    /\ dims.columns = 2
    /\ dims.column_widths[1] > 40
    /\ dims.column_widths[2] > 40

\* C3: a returned row count lies in min_rows..max(min_rows, max_rows) and a
\* returned column count in min_columns..max(min_columns, max_columns).
C3_CountsWithinBounds ==
    planPc = "returned" =>
        /\ planCall.min_rows <= planRet.rows
        /\ planRet.rows <= (IF planCall.min_rows >= planCall.max_rows
                            THEN planCall.min_rows ELSE planCall.max_rows)
        /\ planCall.min_columns <= planRet.columns
        /\ planRet.columns <= (IF planCall.min_columns >= planCall.max_columns
                               THEN planCall.min_columns
                               ELSE planCall.max_columns)

\* A return with min_rows > max_rows, and one column more than min_columns.
C3_Witness ==
    /\ planPc = "returned"
    /\ planCall.min_rows > planCall.max_rows
    /\ planRet.rows = planCall.min_rows
    /\ planRet.columns = planCall.max_columns
    /\ planCall.max_columns > planCall.min_columns

\* C4: a returned total_width lies in max(500, columns*40)..2560 - 2*margin
\* and a returned total_height in max(500, rows*30)..1600 - 2*margin.
C4_TotalsWithinBounds ==
    planPc = "returned" =>
        /\ planRet.total_width >= 500
        /\ planRet.total_width >= planRet.columns * 40
        /\ planRet.total_width <= 2560 - 2 * planCall.margin
        /\ planRet.total_height >= 500
        /\ planRet.total_height >= planRet.rows * 30
        /\ planRet.total_height <= 1600 - 2 * planCall.margin

\* A return at the top of the width range and at a height floor above 500.
C4_Witness ==
    /\ planPc = "returned"
    /\ planRet.total_width = 2560 - 2 * planCall.margin
    /\ planRet.rows * 30 > 500
    /\ planRet.total_height = planRet.rows * 30

\* C5: a plan has rows+1 horizontal and columns+1 vertical styles, all
\* solid_black in uniform mode and all among the four styles in varied mode.
C5_LineStyles ==
    dimsPc = "done" =>
        /\ Len(dims.horizontal_styles) = dims.rows + 1
        /\ Len(dims.vertical_styles) = dims.columns + 1
        /\ \A i \in 1..Len(dims.horizontal_styles) :
             IF dims.is_uniform
             THEN dims.horizontal_styles[i] = "solid_black"
             ELSE dims.horizontal_styles[i] \in
                    {"solid_black", "dotted_black", "solid_gray", "removed"}
        /\ \A i \in 1..Len(dims.vertical_styles) :
             IF dims.is_uniform
             THEN dims.vertical_styles[i] = "solid_black"
             ELSE dims.vertical_styles[i] \in
                    {"solid_black", "dotted_black", "solid_gray", "removed"}

\* A varied plan of two rows with a removed and a dotted gridline.
C5_Witness ==
    /\ dimsPc = "done"
    /\ ~dims.is_uniform
    /\ dims.rows = 2
    /\ dims.horizontal_styles[3] = "removed"
    /\ dims.vertical_styles[1] = "dotted_black"

----------------------------------------------------------------------------
(* Claims about TableData and content synthesis *)

Bit(b) == IF b THEN 1 ELSE 0

\* The body d has n_rows rows of n_columns cells each.
BodyIs(d, n_rows, n_columns) ==
    /\ Len(d) = n_rows
    /\ \A i \in 1..Len(d) : Len(d[i]) = n_columns

\* C6: from_dict(to_dict(t)) has the rows, columns, data, headers, corner
\* header and header flags of t, for every t, zero body rows included.
C6_RoundTrip ==
    dataPc = "restored" =>
        /\ instance.rows = table.rows
        /\ instance.columns = table.columns
        /\ instance.data = table.data
        /\ instance.column_headers = table.column_headers
        /\ instance.row_headers = table.row_headers
        /\ instance.corner_header = table.corner_header
        /\ instance.has_column_headers = table.has_column_headers
        /\ instance.has_row_headers = table.has_row_headers

\* C7 as stated: the synthesized body has R - 1 rows with column headers
\* (else R) and C - 1 columns with row headers (else C), from either synthesizer.
C7_BodyMinusHeaders ==
    /\ dataPc = "content" =>
         BodyIs(result.data,
                genCall.rows - Bit(result.has_column_headers),
                genCall.columns - Bit(result.has_row_headers))
    /\ tableFrom = "generator" =>
         BodyIs(table.data,
                genCall.rows - Bit(table.has_column_headers),
                genCall.columns - Bit(table.has_row_headers))

\* C7 as amended: the body of maker.generate_cell_content has R - 1 rows with
\* column headers (else R) and C - 1 columns with row headers (else C); the
\* body of RandomDataGenerator.generate_table_data has R rows and C columns
\* with or without headers.
C7_BodyMinusHeadersInMaker ==
    /\ dataPc = "content" =>
         BodyIs(result.data,
                genCall.rows - Bit(result.has_column_headers),
                genCall.columns - Bit(result.has_row_headers))
    /\ tableFrom = "generator" =>
         BodyIs(table.data, genCall.rows, genCall.columns)

\* generate_cell_content(rows=2, columns=2) with both headers: a 1 x 1 body.
C7_Witness ==
    /\ dataPc = "content"
    /\ genCall.rows = 2
    /\ genCall.columns = 2
    /\ result.has_column_headers
    /\ result.has_row_headers
    /\ Len(result.data) = 1
    /\ Len(result.data[1]) = 1

\* C8: generate_table_data(rows=R, columns=C) returns a TableData with
\* rows = R, columns = C and an R x C data grid, and with C column headers
\* and R row headers when both header probabilities are 1.0, in both styles.
C8_GeneratorShape ==
    tableFrom = "generator" =>
        /\ table.rows = genCall.rows
        /\ table.columns = genCall.columns
        /\ Len(table.data) = genCall.rows
        /\ \A i \in 1..Len(table.data) : Len(table.data[i]) = genCall.columns
        /\ (genCall.column_header_probability = ProbScale
            /\ genCall.row_header_probability = ProbScale) =>
               /\ Len(table.column_headers) = genCall.columns
               /\ Len(table.row_headers) = genCall.rows

\* A varied 1 x 3 table generated with both header probabilities at 1.0.
C8_Witness ==
    /\ tableFrom = "generator"
    /\ ~genCall.is_normal
    /\ genCall.column_header_probability = ProbScale
    /\ genCall.row_header_probability = ProbScale
    /\ genCall.rows = 1
    /\ genCall.columns = 3
    /\ Len(table.column_headers) = 3
    /\ Len(table.row_headers) = 1

\* C9: with both header probabilities at 1.0 every generated table has both
\* header flags true and a non-null corner header.
C9_HeadersCertain ==
    (genCall.column_header_probability = ProbScale
     /\ genCall.row_header_probability = ProbScale) =>
        /\ tableFrom = "generator" =>
             /\ table.has_column_headers
             /\ table.has_row_headers
             /\ table.corner_header # None
        /\ dataPc = "content" =>
             /\ result.has_column_headers
             /\ result.has_row_headers
             /\ result.corner_header # None

\* A varied table from generate_cell_content with both probabilities at 1.0.
C9_Witness ==
    /\ dataPc = "content"
    /\ genCall.column_header_probability = ProbScale
    /\ genCall.row_header_probability = ProbScale
    /\ ~genCall.is_normal
    /\ result.corner_header = "ID"

\* The corner header of t is "ID" exactly when both header flags are true
\* and null otherwise, and a header list is empty when its flag is false.
CornerAndHeaders(t) ==
    /\ t.corner_header = "ID" <=> (t.has_column_headers /\ t.has_row_headers)
    /\ t.corner_header = None <=> ~(t.has_column_headers /\ t.has_row_headers)
    /\ ~t.has_column_headers => t.column_headers = <<>>
    /\ ~t.has_row_headers => t.row_headers = <<>>

\* C10: CornerAndHeaders holds of every TableData built by the constructor
\* or by content synthesis.
C10_CornerIffBothHeaders ==
    /\ tableFrom \in {"constructor", "generator"} => CornerAndHeaders(table)
    /\ dataPc = "content" => CornerAndHeaders(result)

\* A constructed table with column headers only.
C10_Witness ==
    /\ tableFrom = "constructor"
    /\ table.has_column_headers
    /\ ~table.has_row_headers
    /\ table.columns = 2
    /\ table.corner_header = None
    /\ table.row_headers = <<>>

----------------------------------------------------------------------------
(* Claims about text wrapping *)

\* The lines, put back end to end.
RECURSIVE Flatten(_)
Flatten(lines) == IF lines = <<>> THEN <<>> ELSE Head(lines) \o Flatten(Tail(lines))

CharModeReturned ==
    /\ wrapPc = "returned"
    /\ EffectiveWrapMode(wrapCall.wrap_mode, wrapCall.self_wrap_mode) = "char"

\* C12: in char mode every returned line is no wider than max_width (its
\* characters' widths summed) unless it is one character that is itself
\* wider than max_width; no line is empty; and the lines joined in order
\* are the input text.
C12_CharWrapLines ==
    CharModeReturned =>
        /\ \A k \in 1..Len(wrapLines) :
             /\ wrapLines[k] # <<>>
             /\ \/ GetLength(wrapCall.font, wrapLines[k]) <= wrapCall.max_width
                \/ /\ Len(wrapLines[k]) = 1
                   /\ GetLength(wrapCall.font, wrapLines[k]) > wrapCall.max_width
        /\ Flatten(wrapLines) = wrapCall.text

\* A char-mode call that returned several lines, one of them filled with more
\* than one character and another a single character wider than max_width.
C12_Witness ==
    /\ CharModeReturned
    /\ Len(wrapLines) >= 2
    /\ \E k \in 1..Len(wrapLines) : Len(wrapLines[k]) >= 2
    /\ \E k \in 1..Len(wrapLines) :
         /\ Len(wrapLines[k]) = 1
         /\ GetLength(wrapCall.font, wrapLines[k]) > wrapCall.max_width

----------------------------------------------------------------------------
(* Claims about TableVisualizer.render *)

\* C11: the image render returns is total_width + 2*margin pixels wide and
\* total_height + 2*margin pixels high, whatever the cell sizes, the content,
\* the headers, the wrap mode and the font size.
C11_ImageSize ==
    renderPc = "rendered" =>
        /\ image.width = renderCall.dimensions.total_width
                            + 2 * renderCall.dimensions.margin
        /\ image.height = renderCall.dimensions.total_height
                            + 2 * renderCall.dimensions.margin

\* A rendered table with text in it, a margin, and columns that do not add up
\* to total_width.
C11_Witness ==
    /\ renderPc = "rendered"
    /\ image.cells # {}
    /\ renderCall.dimensions.margin > 0
    /\ SumSeq(renderCall.dimensions.column_widths)
         # renderCall.dimensions.total_width

Min(a, b) == IF a <= b THEN a ELSE b

\* The wrapped lines of a drawn cell and the height of its grid cell.
WrappedLinesOf(cell) ==
    WrapText(Chars(cell.text),
             IF cell.kind = "data" THEN visualizer.font
             ELSE visualizer.header_font,
             renderCall.dimensions.column_widths[cell.column + 1] - 2 * Padding,
             visualizer.wrap_mode)
LineHeightOf(cell) ==
    IF cell.kind = "data" THEN visualizer.font.line_height
    ELSE visualizer.header_font.line_height
CellHeightOf(cell) == renderCall.dimensions.row_heights[cell.row + 1]

\* C20: of the wrapped lines of a cell, exactly the first
\* min(len(wrapped lines), max(0, (cell_height - 2*padding) div line_height))
\* are drawn; a cell lower than 2*padding gets no text.
C20_LinesThatFit ==
    renderPc = "rendered" =>
        \A cell \in image.cells :
            cell.lines =
                SubSeq(WrappedLinesOf(cell), 1,
                       Min(Len(WrappedLinesOf(cell)),
                           Max(0, (CellHeightOf(cell) - 2 * Padding)
                                      \div LineHeightOf(cell))))

----------------------------------------------------------------------------
(* Claims about error handling in the dimension planner *)

\* C15: generate_table_dimensions never hands an empty range to a random
\* draw. When the lower end of a pixel range is above its upper end
\* (columns*40 or 500 above 2560 - 2*margin, rows*30 or 500 above
\* 1600 - 2*margin) it clamps the range or reports a configuration error of
\* its own; the call never ends in the ValueError random.randint raises on
\* an empty range, which is the only way the call reaches "raised".
C15_NoEmptyRangeDrawn == planPc # "raised"

\* C16: in varied mode a partition asked for less than n*min_size is
\* refused: no size list comes back from it, for the columns or for the rows.
C16_DeficitRefused ==
    /\ (dimsPc \in {"row_heights", "row_loop", "line_styles", "done"}
          /\ ~dims.is_uniform)
        => dims.total_width >= dims.columns * MinColumnWidth
    /\ (dimsPc \in {"line_styles", "done"} /\ ~dims.is_uniform)
        => dims.total_height >= dims.rows * MinRowHeight

----------------------------------------------------------------------------
(* Claims about generate_tables *)

\* The paths the k-th table of a batch of n is to be saved under.
ExpectedPaths(k, n) ==
    <<[dir |-> "images", stem |-> IF n > 1 THEN "table_" ELSE "table",
       number |-> IF n > 1 THEN k ELSE 0, ext |-> ".png"],
      [dir |-> "json", stem |-> IF n > 1 THEN "table_" ELSE "table",
       number |-> IF n > 1 THEN k ELSE 0, ext |-> ".json"]>>
FilesIn(dir, ext) == {f \in disk.files : f.path.dir = dir /\ f.path.ext = ext}

\* C13: a generate_tables(count=n) call into an empty output root that
\* returns, returns n (image_path, json_path) pairs in generation order, the
\* k-th being images/table_k.png and json/table_k.json when n > 1 and
\* images/table.png and json/table.json when n = 1; images/ then holds
\* exactly n PNG files and json/ exactly n JSON files.
C13_BatchReturnsAllPairs ==
    batchPc = "returned" =>
        /\ Len(batch.results) = batch.count
        /\ \A k \in 1..batch.count :
             batch.results[k] = ExpectedPaths(k, batch.count)
        /\ Cardinality(FilesIn("images", ".png")) = batch.count
        /\ Cardinality(FilesIn("json", ".json")) = batch.count

\* A batch of two or more tables that returned.
C13_Witness ==
    /\ batchPc = "returned"
    /\ batch.count >= 2
    /\ Len(batch.results) >= 2

\* C14: when generating or saving table k of a batch raises, generate_tables
\* ends at once with that error: generate_table has been called once for
\* each of the tables 0..k in order, so table k is not tried again and no
\* later table is tried, and both files of every earlier table are on disk,
\* complete and as their own call wrote them.
C14_AbortAtFirstError ==
    /\ \A n \in 1..Len(calls) : calls[n] = n - 1
    /\ \A n \in 1..Len(batch.results) :
         /\ [path |-> batch.results[n][1], complete |-> TRUE, written_by |-> n]
                \in disk.files
         /\ [path |-> batch.results[n][2], complete |-> TRUE, written_by |-> n]
                \in disk.files
    /\ batchPc = "raised" =>
         /\ gtPc = "raised"
         /\ frame.error # None
         /\ Len(calls) = batch.i + 1
         /\ Len(batch.results) = batch.i

\* A batch that raised while saving its second table or a later one.
C14_Witness ==
    /\ batchPc = "raised"
    /\ batch.i >= 1
    /\ frame.stages # <<>>
    /\ frame.error = "OSError"

----------------------------------------------------------------------------
(* Claims about generate_table *)

Probabilities(c) ==
    {c.normal_probability, c.empty_row_probability, c.empty_column_probability,
     c.empty_cell_probability, c.column_header_probability,
     c.row_header_probability}
ValidConfig(c) ==
    /\ 0 < c.min_rows /\ c.min_rows <= c.max_rows
    /\ 0 < c.min_columns /\ c.min_columns <= c.max_columns
    /\ c.margin >= 0
    /\ \A p \in Probabilities(c) : 0 <= p /\ p <= One

\* C17: generate_table never generates a table from an invalid configuration
\* (min_rows above max_rows, min_rows or min_columns not positive, a negative
\* margin, a probability outside [0, 1]) without a report: it rejects the
\* configuration or clamps it with a warning before the first stage. The
\* code writes no warning anywhere, so a call that returns had valid
\* arguments.
C17_InvalidConfigNotGenerated ==
    gtPc = "returned" => ValidConfig(config)

\* Stage a has been completed, and before stage b if that has been too.
Done(stage) == \E k \in DOMAIN frame.stages : frame.stages[k] = stage
Before(a, b) ==
    Done(b) => \E k, n \in DOMAIN frame.stages :
                  /\ k < n
                  /\ frame.stages[k] = a
                  /\ frame.stages[n] = b

\* C18: generate_table runs Dimension Planner, Content Synthesizer, Renderer
\* and persistence strictly in this order: the image is not created and the
\* grid not drawn before the content has been synthesized, and nothing is
\* written to disk before rendering has finished.
C18_PlanContentRenderSave ==
    /\ Before("plan", "content")
    /\ Before("content", "image")
    /\ Before("image", "text")
    /\ Before("text", "paths")
    /\ Before("text", "save_image")
    /\ Before("text", "save_json")

\* C18, amended: the planner runs first; the image is created and the grid
\* drawn before the content is synthesized; no text is drawn before the
\* content has been synthesized; and nothing is written to disk before the
\* text has been drawn, the image file before the JSON file.
C18_PlanGridContentTextSave ==
    /\ Before("plan", "sizes")
    /\ Before("sizes", "image")
    /\ Before("styles", "image")
    /\ Before("image", "content")
    /\ Before("content", "text")
    /\ Before("text", "paths")
    /\ Before("paths", "save_image")
    /\ Before("save_image", "save_json")

\* A call that has run every stage and returned.
C18_Witness ==
    /\ gtPc = "returned"
    /\ Done("image") /\ Done("content") /\ Done("text") /\ Done("save_json")

\* C19: every header and body cell generate_table draws is a cell of the
\* dimension grid: column headers are in grid row 0, row headers in grid
\* column 0, body cell (i, j) in grid row i + (1 if column headers) and grid
\* column j + (1 if row headers), and every row index is below rows and every
\* column index below columns.
C19_CellsInsideGrid ==
    \A cell \in frame.addressed :
        /\ cell.row \in 0..(frame.rows - 1)
        /\ cell.column \in 0..(frame.columns - 1)
        /\ cell.kind = "column_header" =>
              /\ cell.row = 0
              /\ cell.column = cell.j + Bit(frame.table_data.has_row_headers)
        /\ cell.kind = "row_header" =>
              /\ cell.column = 0
              /\ cell.row = cell.i + Bit(frame.table_data.has_column_headers)
        /\ cell.kind = "data" =>
              /\ cell.row = cell.i + Bit(frame.table_data.has_column_headers)
              /\ cell.column = cell.j + Bit(frame.table_data.has_row_headers)

\* A table drawn with both headers: the corner, a column header, a row header
\* and a body cell in the last grid row and column.
C19_Witness ==
    /\ Done("text")
    /\ \A kind \in {"corner", "column_header", "row_header"} :
         \E cell \in frame.addressed : cell.kind = kind
    /\ \E cell \in frame.addressed :
         /\ cell.kind = "data"
         /\ cell.row = frame.rows - 1
         /\ cell.column = frame.columns - 1

----------------------------------------------------------------------------
(* Claims about word wrapping *)

\* A wrap call that returned from the "word" branch, which every mode other
\* than "none" and "char" ends in.
WordModeReturned ==
    /\ wrapPc = "returned"
    /\ EffectiveWrapMode(wrapCall.wrap_mode, wrapCall.self_wrap_mode)
          \notin {"none", "char"}
WordsOfLines == [k \in DOMAIN wrapLines |-> Split(wrapLines[k])]
LineWidth(k) == GetLength(wrapCall.font, wrapLines[k])

C27_WordLinesFit ==
    WordModeReturned =>
        \A k \in DOMAIN wrapLines :
            Len(WordsOfLines[k]) >= 2 => LineWidth(k) <= wrapCall.max_width

----------------------------------------------------------------------------
(* Claims about empty rows and columns *)

\* No body cell and no header slot of t is null.
AllFilled(t) ==
    /\ \A i \in DOMAIN t.data : \A j \in DOMAIN t.data[i] : t.data[i][j] # None
    /\ \A j \in DOMAIN t.column_headers : t.column_headers[j] # None
    /\ \A i \in DOMAIN t.row_headers : t.row_headers[i] # None
NoneForcedEmpty ==
    /\ \A i \in DOMAIN empty_rows : ~empty_rows[i]
    /\ empty_column = NoColumn

\* C22: in the uniform style no row and no column is forced empty, whatever
\* empty_row_probability and empty_column_probability are: with is_normal
\* true and empty_cell_probability 0 every body cell is non-null and every
\* header slot of a header that is present is non-null, from both
\* synthesizers.
C22_UniformNeverForcedEmpty ==
    genCall.is_normal =>
        /\ tableFrom = "generator" \/ dataPc = "content" => NoneForcedEmpty
        /\ genCall.empty_cell_probability = 0 =>
             /\ tableFrom = "generator" => AllFilled(table)
             /\ dataPc = "content" => AllFilled(result)

\* A uniform table with both headers and a body, synthesized with both
\* forcing probabilities at 1.0 and empty_cell_probability 0.
C22_Witness ==
    /\ dataPc = "content"
    /\ genCall.is_normal
    /\ genCall.empty_row_probability = One
    /\ genCall.empty_column_probability = One
    /\ genCall.empty_cell_probability = 0
    /\ result.has_column_headers /\ result.has_row_headers
    /\ Len(result.data) >= 1 /\ Len(result.data[1]) >= 1

\* The empty rows and the empty column drawn show in t as claimed.
EmptiesShowIn(t) ==
    /\ empty_column = NoColumn
        \/ \A i \in DOMAIN t.data : empty_column + 1 \in DOMAIN t.data[i]
    /\ \A i \in DOMAIN t.data : \A j \in DOMAIN t.data[i] :
         (empty_rows[i] \/ j - 1 = empty_column) => t.data[i][j] = None
    /\ \A i \in DOMAIN t.row_headers :
         t.row_headers[i] = None <=> empty_rows[i]
    /\ \A j \in DOMAIN t.column_headers :
         t.column_headers[j] = None <=> j - 1 = empty_column

\* C23: in the varied style at most one column is chosen as wholly empty;
\* every body cell of a row marked empty or of the chosen column is null; the
\* row header of an empty row and the column header of the empty column are
\* null; and with headers present every row and column not marked empty has
\* a non-null header, from both synthesizers.
C23_VariedEmpties ==
    ~genCall.is_normal =>
        /\ tableFrom = "generator" => EmptiesShowIn(table)
        /\ dataPc = "content" => EmptiesShowIn(result)

\* A varied table with both headers, an empty row, an empty column and a row
\* and a column that are not empty.
C23_Witness ==
    /\ tableFrom = "generator"
    /\ ~genCall.is_normal
    /\ table.has_column_headers /\ table.has_row_headers
    /\ empty_column # NoColumn
    /\ \E i, k \in DOMAIN empty_rows : empty_rows[i] /\ ~empty_rows[k]
    /\ \E j \in DOMAIN table.column_headers : table.column_headers[j] # None

\* C28: maker.generate_cell_content returns without raising for every
\* rows >= 1 and columns >= 1, every combination of header presence and both
\* styles, columns = 1 with row headers in the varied style and rows = 1 with
\* column headers included.
C28_ContentNeverRaises ==
    (genCall.rows >= 1 /\ genCall.columns >= 1) => dataPc # "raised"

----------------------------------------------------------------------------
(* Claims about fonts and gridlines *)

\* C24: over every sequence of render calls on one TableVisualizer, a call
\* made with no explicit font size draws with a font size within [12, 16],
\* and a call made with an explicit font size draws with exactly that size.
C24_FontSizePerCall ==
    renderPc = "rendered" =>
        IF renderCall.font_size = NoFontSize
        THEN visualizer.font.size \in MinFontSize..MaxFontSize
        ELSE visualizer.font.size = renderCall.font_size

\* C25: font resolution is fatal only when the machine has no font at all:
\* while any font file is installed render does not fail in loading its
\* fonts.
C25_FontsFatalOnlyWithoutAny ==
    (renderPc = "raised" /\ visualizer.font = NoFont) => installed = {}

\* C29: for every margin >= 0 and every dimension plan each gridline drawn,
\* the right and bottom boundary lines included, lies inside the image:
\* vertical lines at x in [0, total_width + 2*margin - 1] and horizontal
\* lines at y in [0, total_height + 2*margin - 1].
C29_GridLinesInsideImage ==
    (renderPc = "rendered" /\ renderCall.dimensions.margin >= 0) =>
        /\ \A line \in image.vertical :
             line.at \in 0..(renderCall.dimensions.total_width
                               + 2 * renderCall.dimensions.margin - 1)
        /\ \A line \in image.horizontal :
             line.at \in 0..(renderCall.dimensions.total_height
                               + 2 * renderCall.dimensions.margin - 1)

----------------------------------------------------------------------------
(* Claims about the order of the two files *)

\* The tables that have a file with the extension ext, and the table the
\* current generate_table call is writing.
TablesWith(ext) ==
    {<<f.path.stem, f.path.number>> : f \in {g \in disk.files : g.path.ext = ext}}
CurrentTable == <<frame.output_filename.stem, frame.output_filename.number>>
CompleteFile(ext) ==
    \E f \in disk.files : /\ f.path.ext = ext
                           /\ <<f.path.stem, f.path.number>> = CurrentTable
                           /\ f.complete

\* C30: at every point of a batch each table's image file is written before
\* its JSON file: the tables with a JSON file are among the tables with an
\* image file, the two sets differ by at most the table in progress, that
\* table's JSON file is written only by the save that follows the save of
\* its image, and a failure after the image has been saved leaves the
\* complete image on disk.
C30_ImageBeforeJson ==
    /\ TablesWith(".json") \subseteq TablesWith(".png")
    /\ TablesWith(".png") \ TablesWith(".json") \subseteq {CurrentTable}
    /\ gtPc # "idle" =>
         /\ CurrentTable \in TablesWith(".json") => Done("save_image")
         /\ CompleteFile(".json") => Done("save_json")
         /\ Done("save_image") => CompleteFile(".png")

\* A batch that failed between the two writes of its second table: the image
\* of that table is on disk and no JSON file of it.
C30_Witness ==
    /\ batchPc = "raised"
    /\ batch.i >= 1
    /\ Done("save_image") /\ ~Done("save_json")
    /\ CurrentTable \in TablesWith(".png")
    /\ CurrentTable \notin TablesWith(".json")

----------------------------------------------------------------------------
(* Claims about the command line *)

\* The attributes the namespace is to have, and the command lines of
\* --count 1 with --normal, --random or both.
ClaimedAttributes ==
    {"normal", "random", "normal_probability", "empty_row_probability",
     "empty_column_probability", "empty_cell_probability",
     "column_header_probability", "row_header_probability"}
StyleFlagLines ==
    {<<Long(<<"count">>), Value("1")>> \o f : f \in StyleFlagArgs \ {<<>>}}

\* C26: the parser accepts --normal and --random, alone or together, and the
\* namespace has normal_probability, empty_row_probability,
\* empty_column_probability, empty_cell_probability,
\* column_header_probability and row_header_probability; main run with
\* --count 1 and these flags does not end in an error.
C26_StyleFlagsAccepted ==
    /\ argv \in StyleFlagLines => cliPc # "exited"
    /\ cliPc \in {"parsed", "called"} => ClaimedAttributes \subseteq DOMAIN args

====
